---- MODULE Spec2Model ----
(***************************************************************************)
(* X Spam Sweeper: the spam classifier of spam-patterns.js (latest variant *)
(* of the file, src/unnamed/part_002) and the AI overlay of ai-service.js, *)
(* the handlers of the options page, the sweep and the report automation   *)
(* of the content script, the link resolution queue of the background      *)
(* script, the popup and the AI session.                                   *)
(*                                                                         *)
(* Texts are JavaScript strings, modelled as TLA+ strings; the regular     *)
(* expressions of the tables are kept as their source text and compiled    *)
(* and matched by the operators below, character by character.             *)
(***************************************************************************)
EXTENDS Integers, Sequences, FiniteSets, TLC

\* ------------------------------------------------------------------------
\* Bounds of the model
\* ------------------------------------------------------------------------

\* a message text is the concatenation of at most MaxTokens vocabulary pieces
MaxTokens == 2

\* the pieces message texts are built from
Vocabulary ==
    {"Sent a link", " ", "wa.me/", "bit.ly/", "youtube.com crypto", "crypto",
     "500x", " crypto 500x"}

\* JavaScript null (a text, a verdict or a field that is null)
Null == "<null>"

\* JavaScript undefined (a field that was never assigned)
Undefined == "<undefined>"

RECURSIVE TextsOfLen(_)
TextsOfLen(n) ==
    IF n = 0 THEN {""}
    ELSE {t \o p : t \in TextsOfLen(n - 1), p \in Vocabulary}

\* every input text of the model: null, "" and the concatenations
Texts == {Null} \cup UNION {TextsOfLen(n) : n \in 0..MaxTokens}

\* ------------------------------------------------------------------------
\* JavaScript strings
\* ------------------------------------------------------------------------

Char(s, i) == SubSeq(s, i, i)

CharSet(s) == {Char(s, i) : i \in 1..Len(s)}

LowerAlpha == "abcdefghijklmnopqrstuvwxyz"

UpperAlpha == "ABCDEFGHIJKLMNOPQRSTUVWXYZ"

Digits == CharSet("0123456789")

\* \w of a JavaScript regular expression
WordChars == CharSet(LowerAlpha) \cup CharSet(UpperAlpha) \cup Digits \cup {"_"}

\* white space removed by String.prototype.trim
WhiteSpace == {" ", "\t", "\n", "\r"}

LowerMap ==
    [c \in CharSet(UpperAlpha) |->
        Char(LowerAlpha, CHOOSE i \in 1..26 : Char(UpperAlpha, i) = c)]

ToLowerChar(c) == IF c \in DOMAIN LowerMap THEN LowerMap[c] ELSE c

\* String.prototype.toLowerCase
RECURSIVE toLowerCase(_)
toLowerCase(s) ==
    IF s = "" THEN "" ELSE ToLowerChar(Head(s)) \o toLowerCase(Tail(s))

\* String.prototype.includes
includes(s, sub) ==
    \E i \in 1..(Len(s) - Len(sub) + 1) : SubSeq(s, i, i + Len(sub) - 1) = sub

RECURSIVE TrimStart(_)
TrimStart(s) ==
    IF s # "" /\ Head(s) \in WhiteSpace THEN TrimStart(Tail(s)) ELSE s

RECURSIVE TrimEnd(_)
TrimEnd(s) ==
    IF s # "" /\ Char(s, Len(s)) \in WhiteSpace
    THEN TrimEnd(SubSeq(s, 1, Len(s) - 1)) ELSE s

\* String.prototype.trim
trim(s) == TrimEnd(TrimStart(s))

\* JavaScript truthiness of a text: null and "" are falsy
Falsy(text) == text = Null \/ text = ""

\* ------------------------------------------------------------------------
\* JavaScript regular expressions (the subset the tables use; every regular
\* expression of the tables carries the i flag)
\* ------------------------------------------------------------------------

WordBoundary == [kind |-> "wordb", cls |-> {}, plus |-> FALSE]

AnyChar == [kind |-> "any", cls |-> {}, plus |-> FALSE]

\* ^ and $ (no m flag: start and end of the input)
StartAnchor == [kind |-> "start", cls |-> {}, plus |-> FALSE]

EndAnchor == [kind |-> "end", cls |-> {}, plus |-> FALSE]

Literal(c) == [kind |-> "char", cls |-> {ToLowerChar(c)}, plus |-> FALSE]

DigitClass == [kind |-> "char", cls |-> Digits, plus |-> FALSE]

\* compile the source text of a regular expression from position i on:
\* \b, \d, an escaped character, '.', ^, $, a literal character, each with
\* an optional + quantifier
RECURSIVE Compile(_, _)
Compile(src, i) ==
    IF i > Len(src) THEN <<>>
    ELSE LET c == Char(src, i)
             esc == (c = "\\")
             width == IF esc THEN 2 ELSE 1
             e == IF esc THEN Char(src, i + 1) ELSE ""
             base == IF esc /\ e = "b" THEN WordBoundary
                     ELSE IF esc /\ e = "d" THEN DigitClass
                     ELSE IF esc THEN Literal(e)
                     ELSE IF c = "." THEN AnyChar
                     ELSE IF c = "^" THEN StartAnchor
                     ELSE IF c = "$" THEN EndAnchor
                     ELSE Literal(c)
             plus == i + width <= Len(src) /\ Char(src, i + width) = "+"
         IN  <<[base EXCEPT !.plus = plus]>>
                \o Compile(src, i + width + (IF plus THEN 1 ELSE 0))

RegExp(src) == Compile(src, 1)

IsWordAt(s, i) == i >= 1 /\ i <= Len(s) /\ Char(s, i) \in WordChars

\* \b holds at position i (between s[i-1] and s[i])
IsWordBoundary(s, i) == IsWordAt(s, i - 1) # IsWordAt(s, i)

\* with the i flag: the character is compared in lower case
AtomMatches(a, c) == a.kind = "any" \/ (a.kind = "char" /\ ToLowerChar(c) \in a.cls)

\* length of the run of characters matching atom a from position i
RECURSIVE RunLength(_, _, _)
RunLength(a, s, i) ==
    IF i <= Len(s) /\ AtomMatches(a, Char(s, i))
    THEN 1 + RunLength(a, s, i + 1) ELSE 0

\* match atoms k.. of re at position i of the string s: the
\* position after the match, or 0 when there is none (greedy, backtracking)
RECURSIVE MatchHere(_, _, _, _)
RECURSIVE TryPlus(_, _, _, _, _)
MatchHere(re, k, s, i) ==
    IF k > Len(re) THEN i
    ELSE LET a == re[k] IN
         IF a.kind = "wordb"
         THEN IF IsWordBoundary(s, i) THEN MatchHere(re, k + 1, s, i) ELSE 0
         ELSE IF a.kind = "start"
         THEN IF i = 1 THEN MatchHere(re, k + 1, s, i) ELSE 0
         ELSE IF a.kind = "end"
         THEN IF i = Len(s) + 1 THEN MatchHere(re, k + 1, s, i) ELSE 0
         ELSE IF a.plus
         THEN TryPlus(re, k, s, i, RunLength(a, s, i))
         ELSE IF i <= Len(s) /\ AtomMatches(a, Char(s, i))
         THEN MatchHere(re, k + 1, s, i + 1) ELSE 0

TryPlus(re, k, s, i, n) ==
    IF n < 1 THEN 0
    ELSE IF MatchHere(re, k + 1, s, i + n) # 0
    THEN MatchHere(re, k + 1, s, i + n)
    ELSE TryPlus(re, k, s, i, n - 1)

NoMatch == [found |-> FALSE, index |-> 0, lastIndex |-> 0]

\* RegExpBuiltinExec: the leftmost match starting at or after the 0-based
\* offset lastIndex; on failure lastIndex becomes 0
RECURSIVE RegExpExec(_, _, _)
RECURSIVE ExecAt(_, _, _, _)
RegExpExec(re, s, lastIndex) ==
    IF lastIndex > Len(s) THEN NoMatch
    ELSE ExecAt(re, s, lastIndex, MatchHere(re, 1, s, lastIndex + 1))

\* e is the end of the match tried at offset lastIndex, 0 when it failed
ExecAt(re, s, lastIndex, e) ==
    IF e # 0 THEN [found |-> TRUE, index |-> lastIndex, lastIndex |-> e - 1]
    ELSE RegExpExec(re, s, lastIndex + 1)

\* RegExp.prototype.test of a regular expression without the g flag (the
\* URL patterns): the search starts at 0 and lastIndex is not touched
RegExpTest(re, text) == RegExpExec(re, text, 0).found

\* the loop of RegExp.prototype[@@match] with the g flag: exec until it
\* fails; spans are the <<index, end>> offsets of the matches found
RECURSIVE MatchLoop(_, _, _, _)
RECURSIVE MatchLoopStep(_, _, _, _)
MatchLoop(re, s, lastIndex, spans) ==
    MatchLoopStep(re, s, RegExpExec(re, s, lastIndex), spans)

\* r is the result of the exec of this iteration
MatchLoopStep(re, s, r, spans) ==
    IF ~r.found THEN [spans |-> spans, lastIndex |-> r.lastIndex]
    ELSE MatchLoop(re, s,
                   IF r.lastIndex = r.index THEN r.lastIndex + 1 ELSE r.lastIndex,
                   Append(spans, <<r.index, r.lastIndex>>))

\* the result of a single exec, in the shape of StringMatch
SingleMatch(r) ==
    [spans |-> IF r.found THEN <<(<<r.index, r.lastIndex>>)>> ELSE <<>>,
     lastIndex |-> r.lastIndex]

\* a plausible slip: pattern.exec or pattern.test on the shared /g object,
\* which continues from the lastIndex left by the previous call
StringMatchSticky(re, text, lastIndex) ==
    SingleMatch(RegExpExec(re, text, lastIndex))

\* String.prototype.match with a /g regular expression whose lastIndex
\* property is lastIndex before the call: lastIndex is first set to 0; the
\* result is the matches found (none for null) and the lastIndex left behind
StringMatch(re, text, lastIndex) == MatchLoop(re, text, 0, <<>>)

\* ------------------------------------------------------------------------
\* Pattern tables.  Each table lists, in the order of the source, the
\* entries that can match a text built from Vocabulary, and a few that
\* cannot; the other entries of the source match no text of the model.
\* ------------------------------------------------------------------------

HIGH_RISK_URL_PATTERNS ==
    << "onlyfans\\.com", "t\\.me\\/", "wa\\.me\\/" >>

MEDIUM_RISK_URL_PATTERNS ==
    << "\\/crypto", "bit\\.ly\\/", "t\\.ly\\/", "tinyurl\\.com" >>

SAFE_DOMAINS == << "github.com", "x.com", "youtube.com" >>

SPAM_KEYWORD_WEIGHTS ==
    << [keyword |-> "crypto", weight |-> 3],
       [keyword |-> "bitcoin", weight |-> 2] >>

\* [regex, weight, name]; the regex objects are shared by all calls
SPAM_REGEX_PATTERNS ==
    << [pattern |-> "\\b\\d+x\\b", weight |-> 5, name |-> "multiplier claim"] >>

RegexNames == {SPAM_REGEX_PATTERNS[i].name : i \in DOMAIN SPAM_REGEX_PATTERNS}

RISK_LEVELS == [HIGH |-> "high", MEDIUM |-> "medium", LOW |-> "low", SAFE |-> "safe"]

\* pattern.toString() of a regular expression literal /src/i
PatternToString(src) == "/" \o src \o "/i"

\* ------------------------------------------------------------------------
\* Custom rules (chrome.storage.sync, written by the options page): URL
\* substrings, and keywords with a weight in 1..10, all lower case
\* ------------------------------------------------------------------------

NoRules == [urls |-> <<>>, keywords |-> <<>>]

RuleSets ==
    { NoRules,
      [urls |-> <<>>,
       keywords |-> <<[keyword |-> "crypto", weight |-> 10]>>],
      [urls |-> <<"bit.ly">>,
       keywords |-> <<[keyword |-> "link", weight |-> 7]>>] }

\* ------------------------------------------------------------------------
\* checkUrlPatterns
\* ------------------------------------------------------------------------

SeqToSet(s) == {s[i] : i \in DOMAIN s}

Min(a, b) == IF a < b THEN a ELSE b

Max(a, b) == IF a > b THEN a ELSE b

\* matchedPatterns.push(pattern.toString()) for each pattern of ps
PatternStrings(ps) == [i \in DOMAIN ps |-> PatternToString(ps[i])]

\* matchedPatterns.push(`custom:${customPattern}`) for each pattern of cs
CustomLabels(cs) == [i \in DOMAIN cs |-> "custom:" \o cs[i]]

SafeUrlResult(hasSafeUrl) ==
    [isSpam |-> FALSE, riskLevel |-> RISK_LEVELS.SAFE,
     matchedPatterns |-> <<>>, hasSafeUrl |-> hasSafeUrl]

\* the regular expressions of table that match text, as pattern.toString()
MatchingPatterns(table, text) ==
    PatternStrings(SelectSeq(table, LAMBDA p : RegExpTest(RegExp(p), text)))

\* the custom URL patterns that lowerText includes, as `custom:${pattern}`
MatchingCustomPatterns(customUrlPatterns, lowerText) ==
    CustomLabels(SelectSeq(customUrlPatterns,
                           LAMBDA c : includes(lowerText, toLowerCase(c))))

\* a plausible slip: the medium-risk loop runs before the HIGH return
UrlResultAll(hasSafeUrl, highAndCustom, medium) ==
    IF Len(highAndCustom) > 0
    THEN [isSpam |-> TRUE, riskLevel |-> RISK_LEVELS.HIGH,
          matchedPatterns |-> highAndCustom \o medium, hasSafeUrl |-> hasSafeUrl]
    ELSE IF Len(medium) > 0
    THEN [isSpam |-> TRUE,
          riskLevel |-> IF hasSafeUrl THEN RISK_LEVELS.LOW ELSE RISK_LEVELS.MEDIUM,
          matchedPatterns |-> medium, hasSafeUrl |-> hasSafeUrl]
    ELSE SafeUrlResult(hasSafeUrl)

\* the returns of checkUrlPatterns: highAndCustom is matchedPatterns after
\* the high-risk and custom loops, medium what the medium-risk loop pushes
UrlResult(hasSafeUrl, highAndCustom, medium) ==
    IF Len(highAndCustom) > 0
    THEN [isSpam |-> TRUE, riskLevel |-> RISK_LEVELS.HIGH,
          matchedPatterns |-> highAndCustom, hasSafeUrl |-> hasSafeUrl]
    ELSE IF Len(medium) > 0
    THEN [isSpam |-> TRUE,
          riskLevel |-> IF hasSafeUrl THEN RISK_LEVELS.LOW ELSE RISK_LEVELS.MEDIUM,
          matchedPatterns |-> medium, hasSafeUrl |-> hasSafeUrl]
    ELSE SafeUrlResult(hasSafeUrl)

HasSafeUrl(lowerText) ==
    \E d \in SeqToSet(SAFE_DOMAINS) : includes(lowerText, d)

checkUrlPatterns(text, customUrlPatterns) ==
    IF Falsy(text) THEN SafeUrlResult(FALSE)
    ELSE UrlResult(HasSafeUrl(toLowerCase(text)),
                   MatchingPatterns(HIGH_RISK_URL_PATTERNS, text)
                       \o MatchingCustomPatterns(customUrlPatterns, toLowerCase(text)),
                   MatchingPatterns(MEDIUM_RISK_URL_PATTERNS, text))

\* ------------------------------------------------------------------------
\* calculateSpamScore
\* ------------------------------------------------------------------------

\* the characters keyword.replace(/[.*+?^${}()|[\]\\]/g, '\\$&') escapes
RegExpMetaChars == CharSet(".*+?^${}()|[]\\")

RECURSIVE EscapeRegExp(_)
EscapeRegExp(keyword) ==
    IF keyword = "" THEN ""
    ELSE (IF Head(keyword) \in RegExpMetaChars THEN "\\" ELSE "")
            \o Head(keyword) \o EscapeRegExp(Tail(keyword))

\* new RegExp(`\\b${escaped}\\b`, 'gi')
KeywordRegExp(keyword) == RegExp("\\b" \o EscapeRegExp(keyword) \o "\\b")

\* matchedKeywords[key] = entry on an object that keeps insertion order
PutKey(obj, entry) ==
    IF \E i \in DOMAIN obj : obj[i].key = entry.key
    THEN [i \in DOMAIN obj |-> IF obj[i].key = entry.key THEN entry ELSE obj[i]]
    ELSE Append(obj, entry)

\* a plausible slip: a keyword counts once however often it occurs
KeywordStepOnce(acc, key, weight, n) ==
    IF n > 0
    THEN [acc EXCEPT !.score = @ + weight,
                     !.matchedKeywords =
                         PutKey(@, [key |-> key, weight |-> weight,
                                    count |-> n, contribution |-> weight])]
    ELSE acc

\* the body of a keyword loop when matches is not null: n is matches.length
\* and acc is [score, matchedKeywords, lastIndex]
KeywordStep(acc, key, weight, n) ==
    IF n > 0
    THEN [acc EXCEPT !.score = @ + weight * n,
                     !.matchedKeywords =
                         PutKey(@, [key |-> key, weight |-> weight,
                                    count |-> n, contribution |-> weight * n])]
    ELSE acc

\* for (const [keyword, weight] of Object.entries(table)) from entry i on;
\* each iteration builds a fresh regex object (lastIndex 0)
RECURSIVE KeywordLoop(_, _, _, _, _)
KeywordLoop(table, i, prefix, lowerText, acc) ==
    IF i > Len(table) THEN acc
    ELSE KeywordLoop(table, i + 1, prefix, lowerText,
            KeywordStep(acc, prefix \o table[i].keyword, table[i].weight,
                Len(StringMatch(KeywordRegExp(table[i].keyword), lowerText, 0).spans)))

\* matches.slice(0, 3) of the matches at spans
FirstMatches(text, spans) ==
    [j \in 1..Min(Len(spans), 3) |-> SubSeq(text, spans[j][1] + 1, spans[j][2])]

\* the body of the regex loop: m is the result of text.match(pattern)
RegexStep(acc, rule, text, m) ==
    IF Len(m.spans) > 0
    THEN [score |-> acc.score + rule.weight * Len(m.spans),
          matchedKeywords |->
              PutKey(acc.matchedKeywords,
                     [key |-> "regex:" \o rule.name, weight |-> rule.weight,
                      count |-> Len(m.spans),
                      contribution |-> rule.weight * Len(m.spans),
                      matches |-> FirstMatches(text, m.spans)]),
          lastIndex |-> [acc.lastIndex EXCEPT ![rule.name] = m.lastIndex]]
    ELSE [acc EXCEPT !.lastIndex[rule.name] = m.lastIndex]

\* for (const [pattern, weight, name] of SPAM_REGEX_PATTERNS) from entry i
\* on; acc.lastIndex is the lastIndex property of each shared regex object
RECURSIVE RegexLoop(_, _, _)
RegexLoop(i, text, acc) ==
    IF i > Len(SPAM_REGEX_PATTERNS) THEN acc
    ELSE RegexLoop(i + 1, text,
            RegexStep(acc, SPAM_REGEX_PATTERNS[i], text,
                StringMatch(RegExp(SPAM_REGEX_PATTERNS[i].pattern), text,
                            acc.lastIndex[SPAM_REGEX_PATTERNS[i].name])))

\* a plausible slip: custom keywords are recorded under the bare keyword
calculateSpamScoreSharedKeys(text, customKeywords, lastIndex) ==
    IF Falsy(text)
    THEN [score |-> 0, matchedKeywords |-> <<>>, lastIndex |-> lastIndex]
    ELSE KeywordLoop(customKeywords, 1, "", toLowerCase(text),
            RegexLoop(1, text,
                KeywordLoop(SPAM_KEYWORD_WEIGHTS, 1, "", toLowerCase(text),
                    [score |-> 0, matchedKeywords |-> <<>>, lastIndex |-> lastIndex])))

\* the result [score, matchedKeywords] and the lastIndex properties left:
\* static keywords, then regex rules, then custom keywords
calculateSpamScore(text, customKeywords, lastIndex) ==
    IF Falsy(text)
    THEN [score |-> 0, matchedKeywords |-> <<>>, lastIndex |-> lastIndex]
    ELSE KeywordLoop(customKeywords, 1, "custom:", toLowerCase(text),
            RegexLoop(1, text,
                KeywordLoop(SPAM_KEYWORD_WEIGHTS, 1, "", toLowerCase(text),
                    [score |-> 0, matchedKeywords |-> <<>>, lastIndex |-> lastIndex])))

\* ------------------------------------------------------------------------
\* getSpamInfo
\* ------------------------------------------------------------------------

\* JavaScript booleans stored in a field that can also hold null or ""
JsTrue == "true"

JsFalse == "false"

\* a plausible slip: the empty string taken for a truthy value
TruthyEmptyString(v) == v \notin {JsFalse, Null, Undefined}

\* the values an if (v) takes for true
Truthy(v) == v \notin {JsFalse, Null, Undefined, ""}

\* a plausible slip: the placeholder is looked for anywhere in the text
IsHiddenLinkAnywhere(text) ==
    IF Falsy(text) THEN text
    ELSE IF includes(toLowerCase(text), "sent a link") THEN JsTrue ELSE JsFalse

\* text && /^sent a link$/i.test(text.trim()): a falsy text is the value
IsHiddenLinkOf(text) ==
    IF Falsy(text) THEN text
    ELSE IF RegExpTest(RegExp("^sent a link$"), trim(text)) THEN JsTrue ELSE JsFalse

\* a plausible slip: the ceiling of the clamp is left out
ClampScoreNoCeiling(totalScore) == Max(totalScore, 0)

\* Math.min(Math.max(totalScore, 0), 30)
ClampScore(totalScore) == Min(Max(totalScore, 0), 30)

\* a plausible slip: the low URL tier adds points of its own
TotalScoreLowTierAdds(keywordScore, isHiddenLink, urlMatch) ==
    LET t0 == keywordScore
        t1 == IF Truthy(isHiddenLink) THEN t0 + 10 ELSE t0
        t2 == IF urlMatch.riskLevel = RISK_LEVELS.HIGH THEN t1 + 20
              ELSE IF urlMatch.riskLevel = RISK_LEVELS.MEDIUM THEN t1 + 10
              ELSE IF urlMatch.riskLevel = RISK_LEVELS.LOW THEN t1 + 5
              ELSE t1
        t3 == IF urlMatch.hasSafeUrl THEN t2 - 10 ELSE t2
    IN  t3

\* a plausible slip: the safe-domain discount takes back all the points of
\* a high-risk URL
TotalScoreSafeCancels(keywordScore, isHiddenLink, urlMatch) ==
    LET t0 == keywordScore
        t1 == IF Truthy(isHiddenLink) THEN t0 + 10 ELSE t0
        t2 == IF urlMatch.riskLevel = RISK_LEVELS.HIGH THEN t1 + 20
              ELSE IF urlMatch.riskLevel = RISK_LEVELS.MEDIUM THEN t1 + 10
              ELSE t1
        t3 == IF urlMatch.hasSafeUrl THEN t2 - 20 ELSE t2
    IN  t3

\* the scoring calibration, before the clamp
TotalScore(keywordScore, isHiddenLink, urlMatch) ==
    LET t0 == keywordScore
        t1 == IF Truthy(isHiddenLink) THEN t0 + 10 ELSE t0
        t2 == IF urlMatch.riskLevel = RISK_LEVELS.HIGH THEN t1 + 20
              ELSE IF urlMatch.riskLevel = RISK_LEVELS.MEDIUM THEN t1 + 10
              ELSE t1
        t3 == IF urlMatch.hasSafeUrl THEN t2 - 10 ELSE t2
    IN  t3

\* a plausible slip: > in place of >=
RiskLevelOfStrict(totalScore) ==
    IF totalScore > 20 THEN RISK_LEVELS.HIGH
    ELSE IF totalScore > 10 THEN RISK_LEVELS.MEDIUM
    ELSE IF totalScore > 3 THEN RISK_LEVELS.LOW
    ELSE RISK_LEVELS.SAFE

\* the risk level assignment
RiskLevelOf(totalScore) ==
    IF totalScore >= 20 THEN RISK_LEVELS.HIGH
    ELSE IF totalScore >= 10 THEN RISK_LEVELS.MEDIUM
    ELSE IF totalScore >= 3 THEN RISK_LEVELS.LOW
    ELSE RISK_LEVELS.SAFE

\* the object getSpamInfo returns, and the lastIndex properties left: km is
\* the result of calculateSpamScore, totalScore the clamped score
SpamInfo(isHiddenLink, urlMatch, km, totalScore) ==
    [info |-> [riskLevel |-> RiskLevelOf(totalScore),
               score |-> totalScore,
               urlMatch |-> urlMatch,
               keywordMatch |-> [score |-> km.score,
                                 matchedKeywords |-> km.matchedKeywords],
               isHiddenLink |-> isHiddenLink],
     lastIndex |-> km.lastIndex]

Scored(isHiddenLink, urlMatch, km) ==
    SpamInfo(isHiddenLink, urlMatch, km,
             ClampScore(TotalScore(km.score, isHiddenLink, urlMatch)))

\* the result of getSpamInfo(text) and the lastIndex properties it leaves
getSpamInfo(text, urls, keywords, lastIndex) ==
    Scored(IsHiddenLinkOf(text),
           checkUrlPatterns(text, urls),
           calculateSpamScore(text, keywords, lastIndex))

\* ------------------------------------------------------------------------
\* scanWithAI (ai-service.js) and getSpamInfoWithAI
\* ------------------------------------------------------------------------

\* confidences are counted in hundredths: 80 is the 0.8 of the source
ConfidenceThreshold == 80

ConfidenceMax == 100

\* the confidences a model response may carry (in hundredths; a response may
\* be outside [0, 1])
RawConfidences == {-20, 80, 81, 150}

\* what the language model does when scanWithAI reaches it
ModelBehaviours ==
    { [kind |-> "no_session"], [kind |-> "prompt_throws"], [kind |-> "malformed"] }
    \cup { [kind |-> "verdict", isSpam |-> b, confidence |-> c,
            category |-> "Crypto", reason |-> "r"]
           : b \in BOOLEAN, c \in RawConfidences }

NullVerdict == [isNull |-> TRUE]

\* the value scanWithAI(text) resolves to: null, or the validated verdict
scanWithAI(text, enabled, behaviour) ==
    IF ~enabled THEN NullVerdict
    ELSE IF Falsy(text) \/ Len(trim(text)) < 10 THEN NullVerdict
    ELSE IF behaviour.kind # "verdict" THEN NullVerdict
    ELSE [isNull |-> FALSE,
          isSpam |-> behaviour.isSpam,
          confidence |-> Min(ConfidenceMax, Max(0, behaviour.confidence)),
          category |-> behaviour.category,
          reason |-> behaviour.reason]

\* where scanWithAI(text) ended: at one of its two early returns, or with what
\* the language model did
ScanOutcome(text, enabled, behaviour) ==
    IF ~enabled THEN "disabled"
    ELSE IF Falsy(text) \/ Len(trim(text)) < 10 THEN "too_short"
    ELSE behaviour.kind

\* obj[name] = value
SetProp(obj, name, value) == (name :> value) @@ obj

\* a plausible slip: the score gate is left out
AIGateNoScore(info) ==
    IF info.riskLevel = RISK_LEVELS.HIGH THEN "already_high_risk"
    ELSE IF Truthy(info.isHiddenLink) THEN "hidden_link_unresolved"
    ELSE "consult"

\* the decision gates of getSpamInfoWithAI: the aiSkipped reason, or
\* "consult" when the call goes on to scanWithAI
AIGate(info) ==
    IF info.riskLevel = RISK_LEVELS.HIGH THEN "already_high_risk"
    ELSE IF info.score < 5 THEN "score_too_low"
    ELSE IF Truthy(info.isHiddenLink) THEN "hidden_link_unresolved"
    ELSE "consult"

\* a plausible slip: >= in place of >
ApplyVerdictInclusive(info, aiVerdict) ==
    IF aiVerdict.isNull THEN SetProp(info, "aiSkipped", "ai_unavailable")
    ELSE
    LET withVerdict == SetProp(info, "aiVerdict", aiVerdict) IN
    IF aiVerdict.isSpam /\ aiVerdict.confidence >= ConfidenceThreshold
    THEN SetProp([withVerdict EXCEPT !.score = 25, !.riskLevel = RISK_LEVELS.HIGH],
                 "aiReason", "AI: " \o aiVerdict.category \o " - " \o aiVerdict.reason)
    ELSE IF ~aiVerdict.isSpam /\ aiVerdict.confidence >= ConfidenceThreshold
    THEN SetProp([withVerdict EXCEPT !.score = 0, !.riskLevel = RISK_LEVELS.SAFE],
                 "aiReason", "AI cleared: " \o aiVerdict.reason)
    ELSE withVerdict

\* a plausible slip: a null verdict returns the result with no reason code
ApplyVerdictSilent(info, aiVerdict) ==
    IF aiVerdict.isNull THEN info
    ELSE
    LET withVerdict == SetProp(info, "aiVerdict", aiVerdict) IN
    IF aiVerdict.isSpam /\ aiVerdict.confidence > ConfidenceThreshold
    THEN SetProp([withVerdict EXCEPT !.score = 25, !.riskLevel = RISK_LEVELS.HIGH],
                 "aiReason", "AI: " \o aiVerdict.category \o " - " \o aiVerdict.reason)
    ELSE IF ~aiVerdict.isSpam /\ aiVerdict.confidence > ConfidenceThreshold
    THEN SetProp([withVerdict EXCEPT !.score = 0, !.riskLevel = RISK_LEVELS.SAFE],
                 "aiReason", "AI cleared: " \o aiVerdict.reason)
    ELSE withVerdict

\* getSpamInfoWithAI after the await: info is the heuristic result with
\* aiChecked set, aiVerdict the value scanWithAI resolved to
ApplyVerdict(info, aiVerdict) ==
    IF aiVerdict.isNull THEN SetProp(info, "aiSkipped", "ai_unavailable")
    ELSE
    LET withVerdict == SetProp(info, "aiVerdict", aiVerdict) IN
    IF aiVerdict.isSpam /\ aiVerdict.confidence > ConfidenceThreshold
    THEN SetProp([withVerdict EXCEPT !.score = 25, !.riskLevel = RISK_LEVELS.HIGH],
                 "aiReason", "AI: " \o aiVerdict.category \o " - " \o aiVerdict.reason)
    ELSE IF ~aiVerdict.isSpam /\ aiVerdict.confidence > ConfidenceThreshold
    THEN SetProp([withVerdict EXCEPT !.score = 0, !.riskLevel = RISK_LEVELS.SAFE],
                 "aiReason", "AI cleared: " \o aiVerdict.reason)
    ELSE withVerdict

\* ------------------------------------------------------------------------
\* Options page (options.js): the custom rule lists and their editors
\* ------------------------------------------------------------------------

\* the custom URL pattern list holds at most MaxUrlPatterns entries
MaxUrlPatterns == 2

\* the custom keyword map holds at most MaxKeywords keys
MaxKeywords == 2

\* what the user types into the URL pattern field or into a pattern row
UrlInputs == {"", " Bit.ly", "http://t.co/x", "link", "sent a link"}

\* what the user types into the keyword field or into a keyword row
KeywordInputs == {"", " Link", "say \"hi\""}

\* the values a number input can hold when a handler reads it
WeightInputs == {"", "0", "3", "15", "-2"}

\* JavaScript values of a keyword weight: a number, NaN or undefined
JsNumber(n) == [type |-> "number", n |-> n]

NaN == [type |-> "NaN"]

UndefinedValue == [type |-> "undefined"]

\* the value of the longest prefix of decimal digits of s, after acc
RECURSIVE ParseDigits(_, _)
ParseDigits(s, acc) ==
    IF s # "" /\ Char(s, 1) \in Digits
    THEN ParseDigits(SubSeq(s, 2, Len(s)),
                     10 * acc + (CHOOSE d \in 0..9 :
                                    Char("0123456789", d + 1) = Char(s, 1)))
    ELSE acc

\* parseInt(string) for decimal input: leading white space, an optional
\* sign, then digits; NaN when no digit follows
parseInt(string) ==
    LET s == TrimStart(string)
        signed == s # "" /\ Char(s, 1) \in {"+", "-"}
        body == IF signed THEN SubSeq(s, 2, Len(s)) ELSE s
    IN IF body = "" \/ Char(body, 1) \notin Digits THEN NaN
       ELSE JsNumber((IF Char(s, 1) = "-" THEN -1 ELSE 1) * ParseDigits(body, 0))

\* parseInt(...) || d: NaN and 0 are falsy
OrDefault(v, d) == IF v.type = "number" /\ v.n # 0 THEN v.n ELSE d

\* Math.min(10, Math.max(1, weight))
ClampWeight(weight) == Min(10, Max(1, weight))

\* String(n) of an integer n >= 0
RECURSIVE DecimalString(_)
DecimalString(n) ==
    IF n < 10 THEN Char("0123456789", n + 1)
    ELSE DecimalString(n \div 10) \o Char("0123456789", (n % 10) + 1)

\* the value a number input holds after value="${weight}": the text
\* "undefined" is no number and is sanitised to ""
InputValueOf(weight) ==
    IF weight.type = "number" THEN DecimalString(weight.n) ELSE ""

\* escapeHtml: textContent assigned and innerHTML read back, which escapes
\* the ampersand and the angle brackets and leaves the quotes
RECURSIVE escapeHtml(_)
escapeHtml(t) ==
    IF t = "" THEN ""
    ELSE (IF Char(t, 1) = "&" THEN "&amp;"
          ELSE IF Char(t, 1) = "<" THEN "&lt;"
          ELSE IF Char(t, 1) = ">" THEN "&gt;"
          ELSE Char(t, 1)) \o escapeHtml(SubSeq(t, 2, Len(t)))

StartsWith(s, prefix) ==
    Len(s) >= Len(prefix) /\ SubSeq(s, 1, Len(prefix)) = prefix

\* the value the HTML parser gives a double-quoted attribute whose text is
\* html: it ends at the first quote, and character references are decoded
RECURSIVE AttributeValue(_)
AttributeValue(html) ==
    IF html = "" \/ Char(html, 1) = "\"" THEN ""
    ELSE IF StartsWith(html, "&amp;")
    THEN "&" \o AttributeValue(SubSeq(html, 6, Len(html)))
    ELSE IF StartsWith(html, "&lt;")
    THEN "<" \o AttributeValue(SubSeq(html, 5, Len(html)))
    ELSE IF StartsWith(html, "&gt;")
    THEN ">" \o AttributeValue(SubSeq(html, 5, Len(html)))
    ELSE Char(html, 1) \o AttributeValue(SubSeq(html, 2, Len(html)))

\* dataset.keyword of an element rendered with
\* data-keyword="${escapeHtml(keyword)}"
DataKeyword(keyword) == AttributeValue(escapeHtml(keyword) \o "\"")

\* the pieces of s between the occurrences of the character sep
RECURSIVE SplitAt(_, _, _)
SplitAt(s, sep, piece) ==
    IF s = "" THEN <<piece>>
    ELSE IF Char(s, 1) = sep
    THEN <<piece>> \o SplitAt(SubSeq(s, 2, Len(s)), sep, "")
    ELSE SplitAt(SubSeq(s, 2, Len(s)), sep, piece \o Char(s, 1))

\* [a-z0-9]([a-z0-9-]*[a-z0-9])? under the i flag
IsDomainLabel(p) ==
    /\ p # ""
    /\ CharSet(p) \subseteq CharSet(LowerAlpha) \cup CharSet(UpperAlpha)
                          \cup Digits \cup {"-"}
    /\ Char(p, 1) # "-"
    /\ Char(p, Len(p)) # "-"

\* [a-z]{2,} under the i flag
IsTopLevelDomain(p) ==
    Len(p) >= 2 /\ CharSet(p) \subseteq CharSet(LowerAlpha) \cup CharSet(UpperAlpha)

\* a plausible slip: (label\.)* for (label\.)+, which takes a bare word
IsHostNameNoDot(host) ==
    LET pieces == SplitAt(host, ".", "") IN
    /\ Len(pieces) >= 1
    /\ \A i \in 1..(Len(pieces) - 1) : IsDomainLabel(pieces[i])
    /\ IsTopLevelDomain(pieces[Len(pieces)])

\* ([a-z0-9]([a-z0-9-]*[a-z0-9])?\.)+[a-z]{2,} matches the whole of host
IsHostName(host) ==
    LET pieces == SplitAt(host, ".", "") IN
    /\ Len(pieces) >= 2
    /\ \A i \in 1..(Len(pieces) - 1) : IsDomainLabel(pieces[i])
    /\ IsTopLevelDomain(pieces[Len(pieces)])

\* input without the optional (https?:\/\/) the URL pattern starts with
WithoutProtocol(input) ==
    IF StartsWith(toLowerCase(input), "http://") THEN SubSeq(input, 8, Len(input))
    ELSE IF StartsWith(toLowerCase(input), "https://") THEN SubSeq(input, 9, Len(input))
    ELSE input

\* the index of the first "/" of s, or Len(s) + 1
FirstSlash(s) ==
    IF \E i \in 1..Len(s) : Char(s, i) = "/"
    THEN CHOOSE i \in 1..Len(s) :
            Char(s, i) = "/" /\ \A j \in 1..(i - 1) : Char(s, j) # "/"
    ELSE Len(s) + 1

\* isValidDomainOrUrl: the domain pattern or the URL pattern matches, and
\* every match of the first is one of the second: an optional protocol, a
\* host name, and an optional path (\/[^\s]*)
isValidDomainOrUrl(input) ==
    LET rest == WithoutProtocol(input)
        host == SubSeq(rest, 1, FirstSlash(rest) - 1)
        path == SubSeq(rest, FirstSlash(rest), Len(rest))
    IN IsHostName(host) /\ CharSet(path) \cap WhiteSpace = {}

\* customKeywords as an object: its [keyword, weight] entries in insertion
\* order; customKeywords[keyword], undefined when the key is absent
GetWeight(map, keyword) ==
    IF \E i \in DOMAIN map : map[i].keyword = keyword
    THEN map[CHOOSE i \in DOMAIN map : map[i].keyword = keyword].weight
    ELSE UndefinedValue

\* if (customKeywords[keyword]): the key is there with a non-zero number
HasTruthyWeight(map, keyword) ==
    GetWeight(map, keyword).type = "number" /\ GetWeight(map, keyword).n # 0

\* customKeywords[keyword] = weight
SetWeight(map, keyword, weight) ==
    IF \E i \in DOMAIN map : map[i].keyword = keyword
    THEN [i \in DOMAIN map |->
             IF map[i].keyword = keyword
             THEN [keyword |-> keyword, weight |-> weight] ELSE map[i]]
    ELSE Append(map, [keyword |-> keyword, weight |-> weight])

\* delete customKeywords[keyword]
DeleteKey(map, keyword) == SelectSeq(map, LAMBDA e : e.keyword # keyword)

\* customUrlPatterns[index] = value on an array: an index past the end
\* leaves holes before it
AssignIndex(list, index, value) ==
    [i \in 1..Max(Len(list), index) |->
        IF i = index THEN value
        ELSE IF i <= Len(list) THEN list[i] ELSE Undefined]

\* customUrlPatterns.splice(index, 1)
Splice(list, index) ==
    [i \in 1..(Len(list) - (IF index <= Len(list) THEN 1 ELSE 0)) |->
        IF i < index THEN list[i] ELSE list[i + 1]]

\* the rows renderUrlPatterns builds: forEach skips the holes; a row keeps
\* its data-index (counted from 1 here)
UrlRowsOf(list) ==
    SelectSeq([i \in DOMAIN list |-> i], LAMBDA i : list[i] # Undefined)

\* the rows renderKeywords builds, one per entry: the data-keyword shared by
\* the span, the input and the buttons of the row, and the input's value
KeywordRowsOf(map) ==
    [i \in DOMAIN map |->
        [dataKeyword |-> DataKeyword(map[i].keyword),
         value |-> InputValueOf(map[i].weight)]]

\* querySelector(`.keyword-weight-input[data-keyword="${keyword}"]`): the
\* first row with that data-keyword
FirstRowOf(rows, keyword) ==
    CHOOSE i \in DOMAIN rows :
        /\ rows[i].dataKeyword = keyword
        /\ \A j \in 1..(i - 1) : rows[j].dataKeyword # keyword

\* what chrome.storage.sync keeps of the lists saveSettings hands it: a hole
\* of an array becomes null and an undefined property is dropped
StoredUrlPatterns(list) ==
    [i \in DOMAIN list |-> IF list[i] = Undefined THEN Null ELSE list[i]]

StoredKeywords(map) ==
    [i \in DOMAIN SelectSeq(map, LAMBDA e : e.weight.type = "number") |->
        [keyword |-> SelectSeq(map, LAMBDA e : e.weight.type = "number")[i].keyword,
         weight |-> SelectSeq(map, LAMBDA e : e.weight.type = "number")[i].weight.n]]

\* the texts a content script classifies under the stored rules
ContentTexts == {" SENT A LINK ", "bit.ly/Sent a link", "wa.me/"}

\* ------------------------------------------------------------------------
\* State
\* ------------------------------------------------------------------------

VARIABLES
    text,               \* the message text under classification
    scanWithAIDefined,  \* typeof scanWithAI === 'function' in this context
    customUrlPatterns,  \* var customUrlPatterns
    customKeywords,     \* var customKeywords
    regexLastIndex,     \* lastIndex of each regex object of SPAM_REGEX_PATTERNS
    aiEnabled,          \* _aiEnabled
    customLoaded,       \* the initCustomPatterns call made when the script
                        \* was loaded has assigned the two tables
    pending,            \* the getSpamInfoWithAI call suspended at its await
    returned,           \* the last value returned by getSpamInfo or
                        \* getSpamInfoWithAI, with the rules it was computed under
    pageUrlPatterns,    \* options.js: let customUrlPatterns
    pageKeywords,       \* options.js: let customKeywords
    urlRows,            \* the rows of #urlPatternsList, by data-index
    keywordRows,        \* the rows of #keywordWeightsList
    resetPending,       \* resetToDefaults is suspended at its storage write
    classified,         \* what getSpamInfo gave a content script that
                        \* loaded the stored rules
    sweepPc,            \* content.js: where the sweepUser handler stands
    sweepLog,           \* the steps of the current sweep and its responses
    sweepResults,       \* const results of the sweepUser handler
    rowVisible,         \* the conversation row of the user is in the list
    autoReportFlag,     \* sessionStorage xSpamSweeperAutoReport is 'true'
    injectRequested,    \* an injectReportHandler message is on its way
    reportDialog,       \* the report dialog of the tab and its iframe
    linkResolutionQueue,    \* background.js: let linkResolutionQueue
    isProcessingQueue,      \* let isProcessingQueue
    workerTabId,            \* let workerTabId
    workerWindowId,         \* let workerWindowId
    loops,              \* the calls of processLinkResolutionQueue that have
                        \* not returned, each with the await it stands at
    windows,            \* the worker windows that exist
    accepted,           \* the usernames queued by resolveSentLinks so far
    attempted,          \* the usernames shifted off the queue so far
    messageRequests,    \* popup.js: let messageRequests
    selectedUsernames,  \* let selectedUsernames
    isFilterActive,     \* let isFilterActive
    shownState,         \* the state showState has made visible
    buttonDisabled,     \* the disabled property of the five action buttons
    batch,              \* the performBatchAction call that has not returned
    aiSession,          \* ai-service.js: var _aiSession
    aiStatus,           \* var _aiStatus
    scans,              \* the scanWithAI calls that have not returned
    createCalls,        \* how often the create of the language model was called
    sessionDropped      \* _aiSession was set back to null at some point

classifierVars == <<text, scanWithAIDefined, customUrlPatterns, customKeywords,
                    regexLastIndex, aiEnabled, customLoaded, pending, returned>>

optionsVars == <<pageUrlPatterns, pageKeywords, urlRows, keywordRows,
                 resetPending, classified>>

contentVars == <<sweepPc, sweepLog, sweepResults, rowVisible, autoReportFlag,
                 injectRequested, reportDialog>>

backgroundVars == <<linkResolutionQueue, isProcessingQueue, workerTabId,
                    workerWindowId, loops, windows, accepted, attempted>>

popupVars == <<messageRequests, selectedUsernames, isFilterActive, shownState,
               buttonDisabled, batch>>

sessionVars == <<aiSession, aiStatus, scans, createCalls, sessionDropped>>

extensionVars == <<backgroundVars, popupVars, sessionVars>>

vars == <<classifierVars, optionsVars, contentVars, extensionVars>>

NoPending == [active |-> FALSE]

NoReturn == [fn |-> "none"]

CurrentRules == [urls |-> customUrlPatterns, keywords |-> customKeywords]

NoDialog == [open |-> FALSE]

\* the options page as loadSettings leaves it over an empty storage
OptionsPageLoaded ==
    /\ pageUrlPatterns = <<>>
    /\ pageKeywords = <<>>
    /\ urlRows = <<>>
    /\ keywordRows = <<>>
    /\ resetPending = FALSE
    /\ classified = [text |-> Null, threw |-> FALSE]

\* the content script of a tab as it is loaded: no sweep under way, no
\* report dialog, nothing in sessionStorage
ContentScriptLoaded ==
    /\ sweepPc = "idle"
    /\ sweepLog = <<>>
    /\ sweepResults = <<>>
    /\ rowVisible = TRUE
    /\ autoReportFlag = FALSE
    /\ injectRequested = FALSE
    /\ reportDialog = NoDialog

\* the classifier as its script is loaded, with no custom rule: the
\* initCustomPatterns call at the end of the custom-pattern section has been
\* made and is suspended at its chrome.storage.sync.get
ClassifierLoaded ==
    /\ customUrlPatterns = <<>>
    /\ customKeywords = <<>>
    /\ customLoaded = FALSE
    /\ regexLastIndex = [n \in RegexNames |-> 0]
    /\ aiEnabled = FALSE
    /\ pending = NoPending
    /\ returned = NoReturn

MaxAccepted == 3

MaxLoops == 2

\* request.users of a resolveSentLinks message
UserLists == {<<>>, <<"alice">>, <<"bob">>, <<"alice", "bob">>}

\* workerWindowId = null, workerTabId = null (no window has id 0)
NoWindow == 0

NotRunning == [pc |-> "off", window |-> NoWindow]

\* the background script as it is loaded
BackgroundLoaded ==
    /\ linkResolutionQueue = <<>>
    /\ isProcessingQueue = FALSE
    /\ workerTabId = NoWindow
    /\ workerWindowId = NoWindow
    /\ loops = [k \in 1..MaxLoops |-> NotRunning]
    /\ windows = {}
    /\ accepted = <<>>
    /\ attempted = <<>>

\* a row of the message request list as the content script reports it
Request(username, riskLevel) ==
    [username |-> username, spamInfo |-> [riskLevel |-> riskLevel]]

\* response.data of getMessageRequests: the rows the page shows
PageLists ==
    {<<>>,
     <<Request("spammer", "high")>>,
     <<Request("friend", "safe")>>,
     <<Request("spammer", "high"), Request("friend", "safe")>>}

\* sweepBtn, menuBtn, reportBtn, blockBtn, deleteBtn
Buttons == {"sweep", "menu", "report", "block", "delete"}

NoBatch == [pc |-> "idle"]

\* the popup as it is opened: the DOMContentLoaded handler has called
\* fetchMessageRequests, which shows the loading state and waits for the
\* content script; no button is disabled by the markup
PopupLoaded ==
    /\ messageRequests = <<>>
    /\ selectedUsernames = {}
    /\ isFilterActive = FALSE
    /\ shownState = "loading"
    /\ buttonDisabled = [b \in Buttons |-> FALSE]
    /\ batch = NoBatch

MaxScans == 2

MaxCreates == 3

\* _aiSession = null (no session has id 0)
NoSession == 0

\* ai-service.js as it is loaded
SessionLoaded ==
    /\ aiSession = NoSession
    /\ aiStatus = "unknown"
    /\ scans = [c \in 1..MaxScans |-> "idle"]
    /\ createCalls = 0
    /\ sessionDropped = FALSE

Init ==
    /\ text \in Texts
    /\ scanWithAIDefined \in BOOLEAN
    /\ ClassifierLoaded
    /\ OptionsPageLoaded
    /\ ContentScriptLoaded
    /\ BackgroundLoaded
    /\ PopupLoaded
    /\ SessionLoaded

\* a plausible slip: the two tables are loaded by separate storage reads,
\* with other callbacks running in between
InitCustomPatternsTorn ==
    \E rules \in RuleSets, other \in RuleSets :
        /\ customUrlPatterns' = rules.urls
        /\ customKeywords' = other.keywords
        /\ customLoaded' = TRUE
        /\ UNCHANGED <<text, scanWithAIDefined, regexLastIndex, aiEnabled,
                       pending, returned, optionsVars, contentVars,
                       extensionVars>>

\* initCustomPatterns, from the resolution of chrome.storage.sync.get on:
\* rules is what the storage holds
InitCustomPatterns ==
    \E rules \in RuleSets :
        /\ customUrlPatterns' = rules.urls
        /\ customKeywords' = rules.keywords
        /\ customLoaded' = TRUE
        /\ UNCHANGED <<text, scanWithAIDefined, regexLastIndex, aiEnabled,
                       pending, returned, optionsVars, contentVars,
                       extensionVars>>

\* setAIEnabled(enabled)
SetAIEnabled ==
    \E enabled \in BOOLEAN :
        /\ aiEnabled' = enabled
        /\ UNCHANGED <<text, scanWithAIDefined, customUrlPatterns, customKeywords,
                       regexLastIndex, customLoaded, pending, returned,
                       optionsVars, contentVars, extensionVars>>

\* getSpamInfo returns r.info and leaves r.lastIndex
ReturnSpamInfo(r) ==
    /\ regexLastIndex' = r.lastIndex
    /\ returned' = [fn |-> "getSpamInfo", rules |-> CurrentRules, info |-> r.info]

\* a call getSpamInfo(text)
GetSpamInfo ==
    /\ ReturnSpamInfo(getSpamInfo(text, customUrlPatterns, customKeywords,
                                  regexLastIndex))
    /\ UNCHANGED <<text, scanWithAIDefined, customUrlPatterns, customKeywords,
                   aiEnabled, customLoaded, pending, optionsVars, contentVars,
                   extensionVars>>

\* getSpamInfoWithAI once the heuristic result r is there: it returns it, or
\* returns it with the gate's aiSkipped, or awaits scanWithAI
GateSpamInfo(r, gate) ==
    /\ regexLastIndex' = r.lastIndex
    /\ IF ~scanWithAIDefined
       THEN /\ returned' = [fn |-> "getSpamInfoWithAI", rules |-> CurrentRules,
                            heuristic |-> r.info, info |-> r.info]
            /\ pending' = pending
       ELSE IF gate # "consult"
       THEN /\ returned' = [fn |-> "getSpamInfoWithAI", rules |-> CurrentRules,
                            heuristic |-> r.info,
                            info |-> SetProp(r.info, "aiSkipped", gate)]
            /\ pending' = pending
       ELSE /\ pending' = [active |-> TRUE, rules |-> CurrentRules,
                           enabled |-> aiEnabled,
                           heuristic |-> r.info,
                           info |-> SetProp(r.info, "aiChecked", TRUE)]
            /\ returned' = returned

GateOf(r) == GateSpamInfo(r, AIGate(r.info))

\* a call getSpamInfoWithAI(text), up to its return or to its await
GetSpamInfoWithAI ==
    /\ ~pending.active
    /\ GateOf(getSpamInfo(text, customUrlPatterns, customKeywords, regexLastIndex))
    /\ UNCHANGED <<text, scanWithAIDefined, customUrlPatterns, customKeywords,
                   aiEnabled, customLoaded, optionsVars, contentVars,
                   extensionVars>>

\* scanWithAI(text) resolves and the suspended getSpamInfoWithAI returns;
\* scanWithAI read _aiEnabled when it was called (pending.enabled)
ScanWithAIResolves ==
    /\ pending.active
    /\ \E behaviour \in ModelBehaviours :
        returned' = [fn |-> "getSpamInfoWithAI", rules |-> pending.rules,
                     heuristic |-> pending.heuristic,
                     outcome |-> ScanOutcome(text, pending.enabled, behaviour),
                     info |-> ApplyVerdict(pending.info,
                                           scanWithAI(text, pending.enabled, behaviour))]
    /\ pending' = NoPending
    /\ UNCHANGED <<text, scanWithAIDefined, customUrlPatterns, customKeywords,
                   regexLastIndex, aiEnabled, customLoaded, optionsVars,
                   contentVars, extensionVars>>

Next ==
    \/ InitCustomPatterns
    \/ SetAIEnabled
    \/ GetSpamInfo
    \/ GetSpamInfoWithAI
    \/ ScanWithAIResolves

Spec == Init /\ [][Next]_vars

\* scanWithAI resolves by itself at its two early returns; past them the
\* call waits on the language model (_initAISession, _aiSession.prompt)
ScanReturnsEarly ==
    /\ ScanWithAIResolves
    /\ returned'.outcome \in {"disabled", "too_short"}

\* the scheduling the event loop guarantees: a scan that returns early is
\* resumed; nothing makes the language model answer
LiveSpec == Spec /\ WF_vars(ScanReturnsEarly)

\* ------------------------------------------------------------------------
\* The options page: one action per handler. Every handler that changes a
\* list calls saveSettings, which hands the lists to chrome.storage.sync, so
\* the storage holds the lists of the page as they are after each handler.
\* ------------------------------------------------------------------------

\* addUrlPattern with input typed into #newUrlPattern
AddUrlPattern ==
    \E input \in UrlInputs :
        LET pattern == toLowerCase(trim(input)) IN
        /\ Len(pageUrlPatterns) < MaxUrlPatterns
        /\ pattern # ""
        /\ isValidDomainOrUrl(pattern)
        /\ pattern \notin SeqToSet(pageUrlPatterns)
        /\ pageUrlPatterns' = Append(pageUrlPatterns, pattern)
        /\ urlRows' = UrlRowsOf(pageUrlPatterns')
        /\ UNCHANGED <<pageKeywords, keywordRows, resetPending, classified,
                       classifierVars, contentVars, extensionVars>>

\* the blur handler of the pattern row r after input was typed into it; the
\* list is not rendered again; customUrlPatterns[index] is undefined past
\* the end of the list
EditUrlPattern ==
    \E r \in DOMAIN urlRows, input \in UrlInputs :
        LET newValue == toLowerCase(trim(input)) IN
        /\ newValue # ""
        /\ isValidDomainOrUrl(newValue)
        /\ newValue # (IF urlRows[r] <= Len(pageUrlPatterns)
                        THEN pageUrlPatterns[urlRows[r]] ELSE Undefined)
        /\ newValue \notin SeqToSet(pageUrlPatterns)
        /\ pageUrlPatterns' = AssignIndex(pageUrlPatterns, urlRows[r], newValue)
        /\ UNCHANGED <<pageKeywords, urlRows, keywordRows, resetPending,
                       classified, classifierVars, contentVars,
                       extensionVars>>

\* the click handler of the remove button of the pattern row r
RemoveUrlPattern ==
    \E r \in DOMAIN urlRows :
        /\ pageUrlPatterns' = Splice(pageUrlPatterns, urlRows[r])
        /\ urlRows' = UrlRowsOf(pageUrlPatterns')
        /\ UNCHANGED <<pageKeywords, keywordRows, resetPending, classified,
                       classifierVars, contentVars, extensionVars>>

\* addKeyword with input in #newKeyword and weight in #newKeywordWeight
AddKeyword ==
    \E input \in KeywordInputs, weight \in WeightInputs :
        LET keyword == toLowerCase(trim(input)) IN
        /\ keyword # ""
        /\ ~HasTruthyWeight(pageKeywords, keyword)
        /\ pageKeywords' =
               SetWeight(pageKeywords, keyword,
                         JsNumber(ClampWeight(OrDefault(parseInt(weight), 3))))
        /\ Len(pageKeywords') <= MaxKeywords
        /\ keywordRows' = KeywordRowsOf(pageKeywords')
        /\ UNCHANGED <<pageUrlPatterns, urlRows, resetPending, classified,
                       classifierVars, contentVars, extensionVars>>

\* the blur handler of the keyword row r after input was typed into its
\* span: the weight of oldKeyword is read, the key deleted, and the weight
\* stored under newKeyword
RenameKeyword ==
    \E r \in DOMAIN keywordRows, input \in KeywordInputs :
        LET newKeyword == toLowerCase(trim(input)) IN
        /\ newKeyword # ""
        /\ newKeyword # keywordRows[r].dataKeyword
        /\ ~HasTruthyWeight(pageKeywords, newKeyword)
        /\ pageKeywords' =
               SetWeight(DeleteKey(pageKeywords, keywordRows[r].dataKeyword),
                         newKeyword,
                         GetWeight(pageKeywords, keywordRows[r].dataKeyword))
        /\ Len(pageKeywords') <= MaxKeywords
        /\ keywordRows' = KeywordRowsOf(pageKeywords')
        /\ UNCHANGED <<pageUrlPatterns, urlRows, resetPending, classified,
                       classifierVars, contentVars, extensionVars>>

\* the change handler of the weight input of row r, which holds value
ChangeWeight ==
    \E r \in DOMAIN keywordRows, value \in WeightInputs :
        /\ pageKeywords' =
               SetWeight(pageKeywords, keywordRows[r].dataKeyword,
                         JsNumber(ClampWeight(OrDefault(parseInt(value), 1))))
        /\ Len(pageKeywords') <= MaxKeywords
        /\ keywordRows' =
               [keywordRows EXCEPT ![r].value =
                   DecimalString(ClampWeight(OrDefault(parseInt(value), 1)))]
        /\ UNCHANGED <<pageUrlPatterns, urlRows, resetPending, classified,
                       classifierVars, contentVars, extensionVars>>

\* the value a spin button leaves: up is true for .spin-up
Spun(value, up) ==
    IF up THEN Min(10, OrDefault(parseInt(value), 1) + 1)
    ELSE Max(1, OrDefault(parseInt(value), 1) - 1)

\* the click handler of a spin button of row r: it reads and writes the
\* first input that carries the data-keyword of the button
SpinWeight ==
    \E r \in DOMAIN keywordRows, up \in BOOLEAN :
        LET input == FirstRowOf(keywordRows, keywordRows[r].dataKeyword) IN
        /\ pageKeywords' =
               SetWeight(pageKeywords, keywordRows[r].dataKeyword,
                         JsNumber(Spun(keywordRows[input].value, up)))
        /\ Len(pageKeywords') <= MaxKeywords
        /\ keywordRows' =
               [keywordRows EXCEPT ![input].value =
                   DecimalString(Spun(keywordRows[input].value, up))]
        /\ UNCHANGED <<pageUrlPatterns, urlRows, resetPending, classified,
                       classifierVars, contentVars, extensionVars>>

\* the click handler of the remove button of the keyword row r
RemoveKeyword ==
    \E r \in DOMAIN keywordRows :
        /\ pageKeywords' = DeleteKey(pageKeywords, keywordRows[r].dataKeyword)
        /\ keywordRows' = KeywordRowsOf(pageKeywords')
        /\ UNCHANGED <<pageUrlPatterns, urlRows, resetPending, classified,
                       classifierVars, contentVars, extensionVars>>

\* resetToDefaults once confirmed, up to its await of the storage write: the
\* lists are emptied and the rows stay as they were rendered
ResetToDefaults ==
    /\ pageUrlPatterns' = <<>>
    /\ pageKeywords' = <<>>
    /\ resetPending' = TRUE
    /\ UNCHANGED <<urlRows, keywordRows, classified, classifierVars, contentVars,
                   extensionVars>>

\* resetToDefaults resumes: renderAll when the write succeeded, the catch
\* block (no rendering) when it failed
ResetResumes ==
    /\ resetPending
    /\ resetPending' = FALSE
    /\ \E written \in BOOLEAN :
        IF written
        THEN /\ urlRows' = UrlRowsOf(pageUrlPatterns)
             /\ keywordRows' = KeywordRowsOf(pageKeywords)
        ELSE UNCHANGED <<urlRows, keywordRows>>
    /\ UNCHANGED <<pageUrlPatterns, pageKeywords, classified, classifierVars,
                   contentVars, extensionVars>>

\* a content script starts, initCustomPatterns loads the stored rules, and
\* getSpamInfo(t) is called: customPattern.toLowerCase() throws on a null
\* entry of the list; classified keeps two fields of the result
ClassifyUnderStoredRules ==
    \E t \in ContentTexts :
        /\ classified' =
               IF Null \in SeqToSet(StoredUrlPatterns(pageUrlPatterns))
               THEN [text |-> t, threw |-> TRUE]
               ELSE LET info == getSpamInfo(t, StoredUrlPatterns(pageUrlPatterns),
                                            StoredKeywords(pageKeywords),
                                            [n \in RegexNames |-> 0]).info
                    IN [text |-> t, threw |-> FALSE,
                        isHiddenLink |-> info.isHiddenLink,
                        urlTier |-> info.urlMatch.riskLevel]
        /\ UNCHANGED <<pageUrlPatterns, pageKeywords, urlRows, keywordRows,
                       resetPending, classifierVars, contentVars,
                       extensionVars>>

OptionsInit ==
    /\ text = Null
    /\ scanWithAIDefined = FALSE
    /\ ClassifierLoaded
    /\ OptionsPageLoaded
    /\ ContentScriptLoaded
    /\ BackgroundLoaded
    /\ PopupLoaded
    /\ SessionLoaded

OptionsNext ==
    \/ AddUrlPattern
    \/ EditUrlPattern
    \/ RemoveUrlPattern
    \/ AddKeyword
    \/ RenameKeyword
    \/ ChangeWeight
    \/ SpinWeight
    \/ RemoveKeyword
    \/ ResetToDefaults
    \/ ResetResumes

OptionsSpec == OptionsInit /\ [][OptionsNext]_vars

\* the URL pattern editors of the options page and a content script that
\* classifies under the rules they stored
StoredRulesNext ==
    \/ AddUrlPattern
    \/ EditUrlPattern
    \/ RemoveUrlPattern
    \/ ResetToDefaults
    \/ ResetResumes
    \/ ClassifyUnderStoredRules

StoredRulesSpec == OptionsInit /\ [][StoredRulesNext]_vars

\* ------------------------------------------------------------------------
\* The content script (content.js): the sweepUser handler, performAction and
\* the report iframe. One sweepUser request is handled at a time; the page
\* (X) opens the report dialog, removes conversation rows and loads the
\* iframe, whose content script reads the sessionStorage flag.
\* ------------------------------------------------------------------------

Started(step) == [step |-> step, event |-> "started"]

Returned(step) == [step |-> step, event |-> "returned"]

\* sendResponse({ success, message, details })
Responded(success) == [step |-> "sweep", event |-> "responded", success |-> success]

\* results.push({ action, ...result })
ResultOf(step, success) == [action |-> step, success |-> success]

\* the 'skipped - already removed' results pushed for the steps after step
SkippedAfter(step) ==
    IF step = "report"
    THEN <<ResultOf("block", TRUE), ResultOf("delete", TRUE)>>
    ELSE <<ResultOf("delete", TRUE)>>

\* a plausible slip: the return after the early sendResponse is missing
AfterStepNoReturn(step, visible, results, log) ==
    IF step = "delete"
    THEN [pc |-> "done", results |-> results,
          log |-> Append(log, Responded(\A i \in DOMAIN results : results[i].success))]
    ELSE IF ~visible
    THEN [pc |-> IF step = "report" THEN "blockDue" ELSE "deleteDue",
          results |-> results \o SkippedAfter(step),
          log |-> Append(log, Responded(TRUE))]
    ELSE [pc |-> IF step = "report" THEN "blockDue" ELSE "deleteDue",
          results |-> results, log |-> log]

\* a plausible slip: the row is looked for after the report only, not after
\* the block
AfterStepChecksOnce(step, visible, results, log) ==
    IF step = "delete"
    THEN [pc |-> "done", results |-> results,
          log |-> Append(log, Responded(\A i \in DOMAIN results : results[i].success))]
    ELSE IF ~visible /\ step = "report"
    THEN [pc |-> "done", results |-> results \o SkippedAfter(step),
          log |-> Append(log, Responded(TRUE))]
    ELSE [pc |-> IF step = "report" THEN "blockDue" ELSE "deleteDue",
          results |-> results, log |-> log]

\* the sweepUser handler from the return of a step on: results and log
\* already hold the outcome of step, visible is isConversationStillVisible;
\* after the delete it answers with results.every(r => r.success), after an
\* earlier step it answers and stops when the row is gone, and else waits
\* (delay) before the next step
AfterStep(step, visible, results, log) ==
    IF step = "delete"
    THEN [pc |-> "done", results |-> results,
          log |-> Append(log, Responded(\A i \in DOMAIN results : results[i].success))]
    ELSE IF ~visible
    THEN [pc |-> "done", results |-> results \o SkippedAfter(step),
          log |-> Append(log, Responded(TRUE))]
    ELSE [pc |-> IF step = "report" THEN "blockDue" ELSE "deleteDue",
          results |-> results, log |-> log]

\* the handler resumes with the result of performAction(username, step);
\* log is the log up to the return of the step
Resume(step, success, log) ==
    LET after == AfterStep(step, rowVisible,
                           Append(sweepResults, ResultOf(step, success)), log)
    IN /\ sweepPc' = after.pc
       /\ sweepResults' = after.results
       /\ sweepLog' = after.log

\* a sweepUser message arrives for a user whose row is in the list or not
SweepUserRequested ==
    /\ sweepPc \in {"idle", "done"}
    /\ sweepPc' = "reportDue"
    /\ sweepLog' = <<>>
    /\ sweepResults' = <<>>
    /\ rowVisible' \in BOOLEAN
    /\ UNCHANGED <<autoReportFlag, injectRequested, reportDialog,
                   classifierVars, optionsVars, extensionVars>>

\* the report dialog as the page opens it
OpenedDialog(by) ==
    [open |-> TRUE, by |-> by, scriptLoaded |-> FALSE, spamSelectedBy |-> "nobody"]

\* performAction(username, 'report') up to waitForElement of the iframe: the
\* Report menu item is clicked when the row and the menu are there, and the
\* page opens the dialog or fails to; without row or menu it returns a
\* failure at once
ReportStarts ==
    /\ sweepPc = "reportDue"
    /\ \E clicked \in BOOLEAN, opened \in BOOLEAN :
          IF rowVisible /\ clicked /\ ~reportDialog.open
          THEN /\ sweepPc' = "reportIframeWait"
               /\ sweepLog' = Append(sweepLog, Started("report"))
               /\ sweepResults' = sweepResults
               /\ reportDialog' = IF opened THEN OpenedDialog("extension")
                                  ELSE reportDialog
          ELSE /\ Resume("report", FALSE,
                         sweepLog \o <<Started("report"), Returned("report")>>)
               /\ reportDialog' = reportDialog
    /\ UNCHANGED <<rowVisible, autoReportFlag, injectRequested,
                   classifierVars, optionsVars, extensionVars>>

\* waitForElement times out after 8 s: the report returns a failure
ReportIframeMissing ==
    /\ sweepPc = "reportIframeWait"
    /\ ~reportDialog.open
    /\ Resume("report", FALSE, Append(sweepLog, Returned("report")))
    /\ UNCHANGED <<rowVisible, autoReportFlag, injectRequested, reportDialog,
                   classifierVars, optionsVars, extensionVars>>

\* the iframe is there and delay(1000) has passed: the flag is set and the
\* background script is asked to inject the automation
ReportRequestsAutomation ==
    /\ sweepPc = "reportIframeWait"
    /\ reportDialog.open
    /\ autoReportFlag' = TRUE
    /\ injectRequested' = TRUE
    /\ sweepPc' = "reportAutomation"
    /\ UNCHANGED <<sweepLog, sweepResults, rowVisible, reportDialog,
                   classifierVars, optionsVars, extensionVars>>

\* background.js: executeScript runs handleReportIframeAutomation in all
\* frames; in a report iframe it selects Spam
InjectReportHandler ==
    /\ injectRequested
    /\ injectRequested' = FALSE
    /\ reportDialog' =
           IF reportDialog.open /\ reportDialog.spamSelectedBy = "nobody"
           THEN [reportDialog EXCEPT !.spamSelectedBy = "injected"]
           ELSE reportDialog
    /\ UNCHANGED <<sweepPc, sweepLog, sweepResults, rowVisible, autoReportFlag,
                   classifierVars, optionsVars, extensionVars>>

\* the report returns after delay(6000) and the search for the completion
\* buttons: a success on every path; the dialog is closed by the Done
\* button or stays
ReportReturns ==
    /\ sweepPc = "reportAutomation"
    /\ Resume("report", TRUE, Append(sweepLog, Returned("report")))
    /\ \E done \in BOOLEAN :
          reportDialog' = IF done THEN NoDialog ELSE reportDialog
    /\ UNCHANGED <<rowVisible, autoReportFlag, injectRequested,
                   classifierVars, optionsVars, extensionVars>>

\* the delay before block or delete has passed and performAction(username,
\* step, true) is called: without a row it returns success at once
\* (skipIfGone), without a menu a failure, else it clicks the menu item
LaterStepStarts ==
    \E step \in {"block", "delete"}, clicked \in BOOLEAN :
        /\ sweepPc = step \o "Due"
        /\ IF ~rowVisible
           THEN Resume(step, TRUE, sweepLog \o <<Started(step), Returned(step)>>)
           ELSE IF ~clicked
           THEN Resume(step, FALSE, sweepLog \o <<Started(step), Returned(step)>>)
           ELSE /\ sweepPc' = step
                /\ sweepLog' = Append(sweepLog, Started(step))
                /\ sweepResults' = sweepResults
        /\ UNCHANGED <<rowVisible, autoReportFlag, injectRequested, reportDialog,
                       classifierVars, optionsVars, extensionVars>>

\* the block or the delete returns after its menu item was clicked
LaterStepReturns ==
    \E step \in {"block", "delete"} :
        /\ sweepPc = step
        /\ Resume(step, TRUE, Append(sweepLog, Returned(step)))
        /\ UNCHANGED <<rowVisible, autoReportFlag, injectRequested, reportDialog,
                       classifierVars, optionsVars, extensionVars>>

\* the page removes the conversation row (after a report, a block or a
\* delete took effect, or because the user removed it)
RowRemoved ==
    /\ sweepPc \notin {"idle", "done"}
    /\ rowVisible
    /\ rowVisible' = FALSE
    /\ UNCHANGED <<sweepPc, sweepLog, sweepResults, autoReportFlag,
                   injectRequested, reportDialog, classifierVars, optionsVars,
                   extensionVars>>

\* the content script is loaded into the iframe of the open dialog: it
\* reads the flag, removes it, and runs attemptSpamSelection, which selects
\* Spam, when the flag was 'true'
IframeScriptLoads ==
    /\ reportDialog.open
    /\ ~reportDialog.scriptLoaded
    /\ reportDialog' =
           IF autoReportFlag /\ reportDialog.spamSelectedBy = "nobody"
           THEN [reportDialog EXCEPT !.scriptLoaded = TRUE,
                                     !.spamSelectedBy = "contentScript"]
           ELSE [reportDialog EXCEPT !.scriptLoaded = TRUE]
    /\ autoReportFlag' = FALSE
    /\ UNCHANGED <<sweepPc, sweepLog, sweepResults, rowVisible, injectRequested,
                   classifierVars, optionsVars, extensionVars>>

\* the user opens the report dialog of a conversation by hand, while no
\* report of the extension is under way
UserOpensReportDialog ==
    /\ ~reportDialog.open
    /\ sweepPc \notin {"reportIframeWait", "reportAutomation"}
    /\ reportDialog' = OpenedDialog("user")
    /\ UNCHANGED <<sweepPc, sweepLog, sweepResults, rowVisible, autoReportFlag,
                   injectRequested, classifierVars, optionsVars,
                   extensionVars>>

\* the user closes the report dialog
UserClosesReportDialog ==
    /\ reportDialog.open
    /\ sweepPc \notin {"reportIframeWait", "reportAutomation"}
    /\ reportDialog' = NoDialog
    /\ UNCHANGED <<sweepPc, sweepLog, sweepResults, rowVisible, autoReportFlag,
                   injectRequested, classifierVars, optionsVars,
                   extensionVars>>

ContentNext ==
    \/ SweepUserRequested
    \/ ReportStarts
    \/ ReportIframeMissing
    \/ ReportRequestsAutomation
    \/ InjectReportHandler
    \/ ReportReturns
    \/ LaterStepStarts
    \/ LaterStepReturns
    \/ RowRemoved
    \/ IframeScriptLoads
    \/ UserOpensReportDialog
    \/ UserClosesReportDialog

ContentSpec == OptionsInit /\ [][ContentNext]_vars

\* ------------------------------------------------------------------------
\* The background script: the queue of hidden links to resolve. The message
\* listener and every stretch of processLinkResolutionQueue between two
\* awaits run to completion; a call of processLinkResolutionQueue that is
\* suspended at an await is an entry of loops.
\* ------------------------------------------------------------------------

\* the finally block of processLinkResolutionQueue; the call k returns
LoopEnds(k) ==
    /\ isProcessingQueue' = FALSE
    /\ workerWindowId' = NoWindow
    /\ workerTabId' = NoWindow
    /\ loops' = [loops EXCEPT ![k] = NotRunning]

\* the while condition of the call k and what follows it up to the next
\* await: the next username is shifted off the queue and resolveUserLink is
\* called, or the loop is left and the worker window is removed, when
\* workerWindowId is set
LoopContinues(k) ==
    IF linkResolutionQueue # <<>>
    THEN /\ linkResolutionQueue' = Tail(linkResolutionQueue)
         /\ attempted' = Append(attempted, Head(linkResolutionQueue))
         /\ loops' = [loops EXCEPT ![k].pc = "resolve"]
         /\ UNCHANGED <<isProcessingQueue, workerTabId, workerWindowId, windows>>
    ELSE IF workerWindowId # NoWindow
    THEN /\ windows' = windows \ {workerWindowId}
         /\ loops' = [loops EXCEPT ![k].pc = "remove"]
         /\ UNCHANGED <<linkResolutionQueue, attempted, isProcessingQueue,
                        workerTabId, workerWindowId>>
    ELSE /\ LoopEnds(k)
         /\ UNCHANGED <<linkResolutionQueue, attempted, windows>>

\* the resolveSentLinks message: an empty list is refused; else the users
\* are queued and processLinkResolutionQueue is called, which returns at
\* once when isProcessingQueue is set and else sets it and asks for the
\* worker window
ResolveSentLinks ==
    \E users \in UserLists :
        /\ Len(accepted) + Len(users) <= MaxAccepted
        /\ linkResolutionQueue' = linkResolutionQueue \o users
        /\ accepted' = accepted \o users
        /\ IF users = <<>> \/ isProcessingQueue
           THEN UNCHANGED <<isProcessingQueue, loops>>
           ELSE /\ isProcessingQueue' = TRUE
                /\ \E k \in 1..MaxLoops :
                      /\ loops[k].pc = "off"
                      /\ \A j \in 1..(k - 1) : loops[j].pc # "off"
                      /\ loops' = [loops EXCEPT ![k].pc = "create"]
        /\ UNCHANGED <<workerTabId, workerWindowId, windows, attempted,
                       classifierVars, optionsVars, contentVars, popupVars,
                       sessionVars>>

\* the cancelLinkResolution message
CancelLinkResolution ==
    /\ linkResolutionQueue' = <<>>
    /\ IF workerWindowId # NoWindow
       THEN /\ windows' = windows \ {workerWindowId}
            /\ workerWindowId' = NoWindow
            /\ workerTabId' = NoWindow
       ELSE UNCHANGED <<windows, workerWindowId, workerTabId>>
    /\ isProcessingQueue' = FALSE
    /\ UNCHANGED <<loops, accepted, attempted, classifierVars, optionsVars,
                   contentVars, popupVars, sessionVars>>

\* chrome.windows.create resolves for the call k: the ids of the new window
\* are stored and chrome.windows.update is called to minimize it
WindowCreated(k) ==
    /\ loops[k].pc = "create"
    /\ \E w \in 1..MaxLoops :
          /\ w \notin windows
          /\ \A v \in 1..(w - 1) : v \in windows
          /\ windows' = windows \cup {w}
          /\ workerWindowId' = w
          /\ workerTabId' = w
          /\ loops' = [loops EXCEPT ![k] = [pc |-> "minimize", window |-> w]]
    /\ UNCHANGED <<linkResolutionQueue, isProcessingQueue, accepted, attempted,
                   classifierVars, optionsVars, contentVars, popupVars,
                   sessionVars>>

\* chrome.windows.update settles for the call k: it rejects when the window
\* is gone, which the outer catch takes to the finally block; else the
\* links of the current user's own profile are extracted
WindowMinimized(k) ==
    /\ loops[k].pc = "minimize"
    /\ IF loops[k].window \in windows
       THEN /\ loops' = [loops EXCEPT ![k].pc = "prepare"]
            /\ UNCHANGED <<isProcessingQueue, workerTabId, workerWindowId>>
       ELSE LoopEnds(k)
    /\ UNCHANGED <<linkResolutionQueue, windows, accepted, attempted,
                   classifierVars, optionsVars, contentVars, popupVars,
                   sessionVars>>

\* the call k resumes at the while loop: after the extraction of the own
\* profile links (whose failures are caught), after the work on one
\* username when the queue is empty, or after the 3 s delay
LoopResumes(k) ==
    /\ \/ loops[k].pc \in {"prepare", "delay"}
       \/ loops[k].pc = "resolve" /\ linkResolutionQueue = <<>>
    /\ LoopContinues(k)
    /\ UNCHANGED <<accepted, classifierVars, optionsVars, contentVars,
                   popupVars, sessionVars>>

\* the work on one username is over (resolveUserLink and the storage of
\* its links, failures caught) and the queue is not empty: the 3 s delay
UserResolved(k) ==
    /\ loops[k].pc = "resolve"
    /\ linkResolutionQueue # <<>>
    /\ loops' = [loops EXCEPT ![k].pc = "delay"]
    /\ UNCHANGED <<linkResolutionQueue, isProcessingQueue, workerTabId,
                   workerWindowId, windows, accepted, attempted,
                   classifierVars, optionsVars, contentVars, popupVars,
                   sessionVars>>

\* chrome.windows.remove settles for the call k: the ids are cleared and
\* the finally block runs
WindowRemoved(k) ==
    /\ loops[k].pc = "remove"
    /\ LoopEnds(k)
    /\ UNCHANGED <<linkResolutionQueue, windows, accepted, attempted,
                   classifierVars, optionsVars, contentVars, popupVars,
                   sessionVars>>

\* a step of a call of processLinkResolutionQueue
LoopStep ==
    \E k \in 1..MaxLoops :
        \/ WindowCreated(k)
        \/ WindowMinimized(k)
        \/ LoopResumes(k)
        \/ UserResolved(k)
        \/ WindowRemoved(k)

QueueNext ==
    \/ ResolveSentLinks
    \/ CancelLinkResolution
    \/ LoopStep

QueueSpec == OptionsInit /\ [][QueueNext]_vars

\* no cancel is requested; every await of a call settles in the end
NoCancelSpec ==
    OptionsInit /\ [][ResolveSentLinks \/ LoopStep]_vars /\ WF_vars(LoopStep)

\* ------------------------------------------------------------------------
\* The popup: the list of message requests, the selection, the filter and
\* the batch actions. The user can click what is shown: the rows and the
\* action bar only in the list state.
\* ------------------------------------------------------------------------

\* riskLevel === 'high' || riskLevel === 'medium'
IsSuspicious(req) == req.spamInfo.riskLevel \in {"high", "medium"}

\* the requests that pass the filter, as renderRequestsList, toggleSelectAll
\* and updateSelectionUI compute them
VisibleRequests(requests, filterActive) ==
    IF filterActive THEN SelectSeq(requests, IsSuspicious) ELSE requests

UsernamesOf(requests) == {requests[i].username : i \in DOMAIN requests}

\* updateSelectionUI: the disabled property of the buttons it assigns
updateSelectionUI(selected, disabled) ==
    [b \in Buttons |-> IF b = "delete" THEN disabled[b] ELSE selected = {}]

\* renderRequestsList: the empty state without a row to show, else the
\* list state and updateSelectionUI
renderRequestsList(requests, filterActive, selected) ==
    IF VisibleRequests(requests, filterActive) = <<>>
    THEN /\ shownState' = "empty"
         /\ buttonDisabled' = buttonDisabled
    ELSE /\ shownState' = "list"
         /\ buttonDisabled' = updateSelectionUI(selected, buttonDisabled)

\* fetchMessageRequests up to its first await (refresh button, domUpdated
\* or linkResolved message)
FetchMessageRequests ==
    /\ shownState # "loading"
    /\ shownState' = "loading"
    /\ selectedUsernames' = {}
    /\ UNCHANGED <<messageRequests, isFilterActive, buttonDisabled, batch,
                   classifierVars, optionsVars, contentVars, backgroundVars,
                   sessionVars>>

\* fetchMessageRequests resumes: an error is shown, or the answer of the
\* content script is stored and rendered
FetchReturns ==
    /\ shownState = "loading"
    /\ \/ /\ shownState' = "error"
          /\ UNCHANGED <<messageRequests, buttonDisabled>>
       \/ \E rows \in PageLists :
             /\ messageRequests' = rows
             /\ renderRequestsList(rows, isFilterActive, selectedUsernames)
    /\ UNCHANGED <<selectedUsernames, isFilterActive, batch, classifierVars,
                   optionsVars, contentVars, backgroundVars, sessionVars>>

\* toggleSelection(username): a click on a row of the list
ToggleSelection ==
    /\ shownState = "list"
    /\ \E username \in UsernamesOf(VisibleRequests(messageRequests, isFilterActive)) :
          /\ selectedUsernames' =
                 IF username \in selectedUsernames
                 THEN selectedUsernames \ {username}
                 ELSE selectedUsernames \cup {username}
          /\ buttonDisabled' = updateSelectionUI(selectedUsernames', buttonDisabled)
    /\ UNCHANGED <<messageRequests, isFilterActive, shownState, batch,
                   classifierVars, optionsVars, contentVars, backgroundVars,
                   sessionVars>>

\* toggleSelectAll: the select-all checkbox of the action bar
ToggleSelectAll ==
    /\ shownState = "list"
    /\ LET visible == UsernamesOf(VisibleRequests(messageRequests, isFilterActive))
       IN  selectedUsernames' =
               IF visible \subseteq selectedUsernames THEN {} ELSE visible
    /\ buttonDisabled' = updateSelectionUI(selectedUsernames', buttonDisabled)
    /\ UNCHANGED <<messageRequests, isFilterActive, shownState, batch,
                   classifierVars, optionsVars, contentVars, backgroundVars,
                   sessionVars>>

\* toggleFilter: the filter button of the header, while no fetch is under way
ToggleFilter ==
    /\ shownState # "loading"
    /\ isFilterActive' = ~isFilterActive
    /\ renderRequestsList(messageRequests, ~isFilterActive, selectedUsernames)
    /\ UNCHANGED <<messageRequests, selectedUsernames, batch, classifierVars,
                   optionsVars, contentVars, backgroundVars, sessionVars>>

\* a click on the sweep button or on an entry of the submenu:
\* performBatchAction up to await chrome.tabs.query; it returns at once
\* without a selection
BatchClicked ==
    /\ shownState = "list"
    /\ batch.pc = "idle"
    /\ \E actionType \in {"sweep", "delete", "block", "report"} :
          /\ ~buttonDisabled[actionType]
          /\ actionType # "sweep" => ~buttonDisabled["menu"]
          /\ batch' = IF selectedUsernames = {} THEN NoBatch
                      ELSE [pc |-> "query", actionType |-> actionType,
                            selected |-> selectedUsernames]
    /\ UNCHANGED <<messageRequests, selectedUsernames, isFilterActive,
                   shownState, buttonDisabled, classifierVars, optionsVars,
                   contentVars, backgroundVars, sessionVars>>

\* chrome.tabs.query resolves: without a tab the call returns; else the
\* five buttons are disabled and the first message is sent
BatchTabFound ==
    /\ batch.pc = "query"
    /\ \E tab \in BOOLEAN :
          IF tab
          THEN /\ buttonDisabled' = [b \in Buttons |-> TRUE]
               /\ batch' = [batch EXCEPT !.pc = "sending"]
          ELSE /\ buttonDisabled' = buttonDisabled
               /\ batch' = NoBatch
    /\ UNCHANGED <<messageRequests, selectedUsernames, isFilterActive,
                   shownState, classifierVars, optionsVars, contentVars,
                   backgroundVars, sessionVars>>

\* the content script answers for one username (or sendMessage throws): a
\* success takes the username out of the selection; after the last one
\* updateSelectionUI runs, and a sweep or a delete waits for its refresh
BatchAnswered ==
    /\ batch.pc = "sending"
    /\ \E username \in batch.selected, success \in BOOLEAN :
          /\ selectedUsernames' = IF success THEN selectedUsernames \ {username}
                                  ELSE selectedUsernames
          /\ IF batch.selected = {username}
             THEN /\ buttonDisabled' = updateSelectionUI(selectedUsernames',
                                                         buttonDisabled)
                  /\ batch' = IF batch.actionType \in {"sweep", "delete"}
                              THEN [pc |-> "refresh"]
                              ELSE NoBatch
             ELSE /\ buttonDisabled' = buttonDisabled
                  /\ batch' = [batch EXCEPT !.selected = @ \ {username}]
    /\ UNCHANGED <<messageRequests, isFilterActive, shownState, classifierVars,
                   optionsVars, contentVars, backgroundVars, sessionVars>>

\* the 500 ms after a sweep or a delete are over: fetchMessageRequests is
\* called and performBatchAction ends with it
BatchRefreshes ==
    /\ batch.pc = "refresh"
    /\ batch' = NoBatch
    /\ shownState' = "loading"
    /\ selectedUsernames' = {}
    /\ UNCHANGED <<messageRequests, isFilterActive, buttonDisabled,
                   classifierVars, optionsVars, contentVars, backgroundVars,
                   sessionVars>>

PopupNext ==
    \/ FetchMessageRequests
    \/ FetchReturns
    \/ ToggleSelection
    \/ ToggleSelectAll
    \/ ToggleFilter
    \/ BatchClicked
    \/ BatchTabFound
    \/ BatchAnswered
    \/ BatchRefreshes

PopupSpec == OptionsInit /\ [][PopupNext]_vars

\* ------------------------------------------------------------------------
\* The AI session (ai-service.js): scanWithAI calls with AI enabled and a
\* text of ten characters or more, in a context that has a language-model
\* API. A call suspended at an await is an entry of scans.
\* ------------------------------------------------------------------------

\* _aiStatus !== AI_STATUS.AVAILABLE && _aiStatus !== AI_STATUS.DOWNLOADING
StatusRulesOutCreate(status) == status \notin {"available", "downloading"}

\* the _aiStatus checkAIAvailability assigns for capabilities.available, or
\* when api.capabilities() rejects
StatusFor(available) ==
    CASE available = "no" -> "unavailable"
      [] available = "after-download" -> "downloading"
      [] available = "readily" -> "available"
      [] available = "rejected" -> "error"
      [] OTHER -> "unknown"

\* _initAISession from its second status test on, for the call c: it
\* returns false, and scanWithAI null, or api.create is called
CreateOrGiveUp(c, status) ==
    IF StatusRulesOutCreate(status)
    THEN /\ scans' = [scans EXCEPT ![c] = "idle"]
         /\ createCalls' = createCalls
    ELSE /\ createCalls < MaxCreates
         /\ scans' = [scans EXCEPT ![c] = "creating"]
         /\ createCalls' = createCalls + 1

\* scanWithAI(text) up to its first await: with a session it prompts it;
\* without one _initAISession checks the availability first when the status
\* asks for it, and else calls api.create
ScanWithAICalled ==
    \E c \in 1..MaxScans :
        /\ scans[c] = "idle"
        /\ IF aiSession # NoSession
           THEN /\ scans' = [scans EXCEPT ![c] = "prompting"]
                /\ UNCHANGED <<aiStatus, createCalls>>
           ELSE IF StatusRulesOutCreate(aiStatus)
           THEN /\ aiStatus' = "checking"
                /\ scans' = [scans EXCEPT ![c] = "checking"]
                /\ UNCHANGED createCalls
           ELSE /\ CreateOrGiveUp(c, aiStatus)
                /\ UNCHANGED aiStatus
        /\ UNCHANGED <<aiSession, sessionDropped, classifierVars, optionsVars,
                       contentVars, backgroundVars, popupVars>>

\* api.capabilities() settles for the call c: checkAIAvailability assigns
\* the status and _initAISession goes on
AvailabilityChecked ==
    \E c \in 1..MaxScans,
       available \in {"no", "after-download", "readily", "other", "rejected"} :
        /\ scans[c] = "checking"
        /\ aiStatus' = StatusFor(available)
        /\ CreateOrGiveUp(c, StatusFor(available))
        /\ UNCHANGED <<aiSession, sessionDropped, classifierVars, optionsVars,
                       contentVars, backgroundVars, popupVars>>

\* api.create settles for the call c: the new session is assigned to
\* _aiSession and prompted, or the catch block resets _aiSession
SessionCreated ==
    \E c \in 1..MaxScans, created \in BOOLEAN :
        /\ scans[c] = "creating"
        /\ IF created
           THEN /\ aiSession' = c
                /\ aiStatus' = "available"
                /\ scans' = [scans EXCEPT ![c] = "prompting"]
                /\ UNCHANGED sessionDropped
           ELSE /\ aiSession' = NoSession
                /\ aiStatus' = "error"
                /\ scans' = [scans EXCEPT ![c] = "idle"]
                /\ sessionDropped' = TRUE
        /\ UNCHANGED <<createCalls, classifierVars, optionsVars, contentVars,
                       backgroundVars, popupVars>>

\* _aiSession.prompt settles for the call c and scanWithAI returns; an
\* error that names the session resets _aiSession
PromptSettled ==
    \E c \in 1..MaxScans, sessionDied \in BOOLEAN :
        /\ scans[c] = "prompting"
        /\ scans' = [scans EXCEPT ![c] = "idle"]
        /\ IF sessionDied
           THEN /\ aiSession' = NoSession
                /\ sessionDropped' = TRUE
           ELSE UNCHANGED <<aiSession, sessionDropped>>
        /\ UNCHANGED <<aiStatus, createCalls, classifierVars, optionsVars,
                       contentVars, backgroundVars, popupVars>>

\* destroyAISession()
DestroyAISession ==
    /\ aiSession # NoSession
    /\ aiSession' = NoSession
    /\ sessionDropped' = TRUE
    /\ UNCHANGED <<aiStatus, scans, createCalls, classifierVars, optionsVars,
                   contentVars, backgroundVars, popupVars>>

SessionNext ==
    \/ ScanWithAICalled
    \/ AvailabilityChecked
    \/ SessionCreated
    \/ PromptSettled
    \/ DestroyAISession

SessionSpec == OptionsInit /\ [][SessionNext]_vars

\* ------------------------------------------------------------------------
\* Properties of the returned results
\* ------------------------------------------------------------------------

\* C1: for every text, every custom rule set and every model verdict, the
\* score returned by getSpamInfo and by getSpamInfoWithAI is an integer in
\* the closed interval [0, 30]
ScoreInRange ==
    returned.fn # "none" => returned.info.score \in 0..30

\* getSpamInfo has returned 30 where the sum before the clamp was above 30
ScoreClampedAtCeiling ==
    /\ returned.fn = "getSpamInfo"
    /\ returned.info.score = 30
    /\ TotalScore(returned.info.keywordMatch.score, returned.info.isHiddenLink,
                  returned.info.urlMatch) > 30

\* C2: in every returned result riskLevel is the threshold function of the
\* returned score: high iff score >= 20, else medium iff score >= 10, else
\* low iff score >= 3, else safe
TierMatchesScore ==
    returned.fn # "none" =>
        /\ returned.info.riskLevel = "high" <=> returned.info.score >= 20
        /\ returned.info.riskLevel = "medium" <=>
               (returned.info.score >= 10 /\ returned.info.score < 20)
        /\ returned.info.riskLevel = "low" <=>
               (returned.info.score >= 3 /\ returned.info.score < 10)
        /\ returned.info.riskLevel = "safe" <=> returned.info.score < 3

\* a result sits exactly on the lowest threshold
TierAtLowThreshold ==
    /\ returned.fn # "none"
    /\ returned.info.score = 3
    /\ returned.info.riskLevel = "low"

\* the text matches a high-risk URL pattern or includes a custom URL pattern
\* of the rules the last result was computed under
MatchesHighOrCustomUrl ==
    /\ ~Falsy(text)
    /\ \/ Len(MatchingPatterns(HIGH_RISK_URL_PATTERNS, text)) > 0
       \/ Len(MatchingCustomPatterns(returned.rules.urls, toLowerCase(text))) > 0

\* the text matches a medium-risk URL pattern
MatchesMediumUrl ==
    /\ ~Falsy(text)
    /\ Len(MatchingPatterns(MEDIUM_RISK_URL_PATTERNS, text)) > 0

\* the text includes a safe domain
MentionsSafeDomain ==
    /\ ~Falsy(text)
    /\ HasSafeUrl(toLowerCase(text))

\* C3: if the text matches any high-risk URL pattern or any custom URL
\* pattern, getSpamInfo returns riskLevel high, whatever else the text
\* contains (keywords, safe domains, other URLs)
HighUrlForcesHigh ==
    (returned.fn = "getSpamInfo" /\ MatchesHighOrCustomUrl)
        => returned.info.riskLevel = RISK_LEVELS.HIGH

\* C4: if the text has a medium-risk URL pattern and a safe domain, and no
\* high-risk or custom URL match, the tier getSpamInfo returns is low
MediumUrlWithSafeDomainIsLow ==
    (/\ returned.fn = "getSpamInfo"
     /\ MatchesMediumUrl
     /\ MentionsSafeDomain
     /\ ~MatchesHighOrCustomUrl)
        => returned.info.riskLevel = RISK_LEVELS.LOW

\* 1 when b holds, else 0
Indicator(b) == IF b THEN 1 ELSE 0

\* the sum the score is clamped from, read off a returned result
SumOfParts(info) ==
    info.keywordMatch.score
        + 10 * Indicator(info.isHiddenLink = JsTrue)
        + 20 * Indicator(info.urlMatch.riskLevel = "high")
        + 10 * Indicator(info.urlMatch.riskLevel = "medium")
        - 10 * Indicator(info.urlMatch.hasSafeUrl)

\* C5: the score of getSpamInfo is clamp(keywordScore + 10*[isHiddenLink]
\* + 20*[URL tier high] + 10*[URL tier medium] - 10*[hasSafeUrl], 0, 30):
\* URL tiers low and safe add nothing and the safe-domain discount is
\* subtracted once, however many safe domains or mentions the text has
ScoreIsClampedSum ==
    returned.fn = "getSpamInfo" =>
        returned.info.score =
            IF SumOfParts(returned.info) < 0 THEN 0
            ELSE IF SumOfParts(returned.info) > 30 THEN 30
            ELSE SumOfParts(returned.info)

\* a medium-risk shortener beside two mentions of a safe domain, under a
\* keyword score that leaves a positive score after one discount of 10
DiscountedOnceForTwoMentions ==
    /\ returned.fn = "getSpamInfo"
    /\ text = "youtube.com cryptoyoutube.com crypto"
    /\ returned.info.urlMatch.hasSafeUrl
    /\ returned.info.score = returned.info.keywordMatch.score - 10
    /\ returned.info.score > 0

\* C6: with no custom rules, a text that trimmed equals "sent a link" case
\* insensitively gets isHiddenLink true, score 10 and tier medium; a text
\* that only contains the phrase is not a hidden link
HiddenLinkPlaceholder ==
    (returned.fn = "getSpamInfo" /\ returned.rules = NoRules) =>
        IF toLowerCase(trim(text)) = "sent a link"
        THEN /\ returned.info.isHiddenLink = JsTrue
             /\ returned.info.score = 10
             /\ returned.info.riskLevel = RISK_LEVELS.MEDIUM
        ELSE returned.info.isHiddenLink # JsTrue

\* the placeholder in capitals and with white space around it
HiddenLinkTrimmedAndCased ==
    /\ returned.fn = "getSpamInfo"
    /\ returned.rules = NoRules
    /\ text = " Sent a link"
    /\ returned.info.isHiddenLink = JsTrue

\* C7: for the empty string and for null, under any custom rules,
\* getSpamInfo returns score 0, tier safe, no matched URL pattern and no
\* matched keyword
EmptyTextIsSafe ==
    (returned.fn = "getSpamInfo" /\ text \in {Null, ""}) =>
        /\ returned.info.score = 0
        /\ returned.info.riskLevel = RISK_LEVELS.SAFE
        /\ returned.info.urlMatch.matchedPatterns = <<>>
        /\ returned.info.keywordMatch.matchedKeywords = <<>>

\* getSpamInfo has returned for the empty string under custom rules
EmptyTextUnderCustomRules ==
    /\ returned.fn = "getSpamInfo"
    /\ text = ""
    /\ returned.rules # NoRules
    /\ returned.info.score = 0

\* C8: getSpamInfo is idempotent: a call on the same text under the same
\* custom rules as the call before returns the identical result, and no
\* call leaves state behind in the shared regular-expression objects
GetSpamInfoIdempotent ==
    /\ [](\A n \in RegexNames : regexLastIndex[n] = 0)
    /\ [][(/\ returned.fn = "getSpamInfo"
           /\ returned'.fn = "getSpamInfo"
           /\ returned'.rules = returned.rules)
              => returned'.info = returned.info]_vars

\* getSpamInfo has returned from a text that a shared regular expression of
\* SPAM_REGEX_PATTERNS matched
SharedRegexMatched ==
    /\ returned.fn = "getSpamInfo"
    /\ \E i \in DOMAIN returned.info.keywordMatch.matchedKeywords :
           /\ returned.info.keywordMatch.matchedKeywords[i].key
                  = "regex:multiplier claim"
           /\ returned.info.keywordMatch.matchedKeywords[i].count = 1

\* C9: getSpamInfoWithAI calls scanWithAI only when the heuristic result
\* has a tier other than high, a score of at least 5 (so 5 to 19) and
\* isHiddenLink false; in every other case it returns without the call
AIConsultedOnlyInSusZone ==
    /\ pending.active =>
           /\ pending.heuristic.riskLevel # RISK_LEVELS.HIGH
           /\ pending.heuristic.score \in 5..19
           /\ pending.heuristic.isHiddenLink = JsFalse
    /\ (returned.fn = "getSpamInfoWithAI"
            /\ "aiChecked" \in DOMAIN returned.info) =>
           /\ returned.heuristic.riskLevel # RISK_LEVELS.HIGH
           /\ returned.heuristic.score \in 5..19
           /\ returned.heuristic.isHiddenLink = JsFalse

\* scanWithAI has been called for a heuristic score of exactly 5
AIConsultedAtScoreFive ==
    /\ pending.active
    /\ pending.heuristic.score = 5

\* C10: when scanWithAI returns a verdict: confidence above 0.8 and spam
\* gives score 25 and tier high; confidence above 0.8 and not spam gives
\* score 0 and tier safe; confidence of 0.8 or less leaves score and tier
\* equal to the heuristic result
VerdictOverridesAboveThreshold ==
    (returned.fn = "getSpamInfoWithAI"
        /\ "aiVerdict" \in DOMAIN returned.info) =>
        /\ (returned.info.aiVerdict.confidence > 80
                /\ returned.info.aiVerdict.isSpam) =>
               /\ returned.info.score = 25
               /\ returned.info.riskLevel = RISK_LEVELS.HIGH
        /\ (returned.info.aiVerdict.confidence > 80
                /\ ~returned.info.aiVerdict.isSpam) =>
               /\ returned.info.score = 0
               /\ returned.info.riskLevel = RISK_LEVELS.SAFE
        /\ returned.info.aiVerdict.confidence <= 80 =>
               /\ returned.info.score = returned.heuristic.score
               /\ returned.info.riskLevel = returned.heuristic.riskLevel

\* a spam verdict of confidence exactly 0.8 has left a heuristic result in
\* place
VerdictAtThresholdKept ==
    /\ returned.fn = "getSpamInfoWithAI"
    /\ "aiVerdict" \in DOMAIN returned.info
    /\ returned.info.aiVerdict.confidence = 80
    /\ returned.info.aiVerdict.isSpam
    /\ returned.info.score = returned.heuristic.score
    /\ returned.info.score # 25

ConsultationEventuallyReturns ==
    pending.active ~> ~pending.active

\* the sum of the contribution fields of the first n entries of mk
RECURSIVE ContributionSum(_, _)
ContributionSum(mk, n) ==
    IF n = 0 THEN 0 ELSE ContributionSum(mk, n - 1) + mk[n].contribution

\* mk has an entry under key
HasEntry(mk, key) == \E i \in DOMAIN mk : mk[i].key = key

\* C13: custom keywords are additive: a custom keyword with the literal
\* text of a static keyword fires together with it, the two are recorded
\* under the keys `literal` and `custom:literal` with their own weights, and
\* the keyword score is the sum of the contributions, the custom one counted
CustomKeywordsAdditive ==
    returned.fn = "getSpamInfo" =>
        \A i \in DOMAIN returned.rules.keywords :
            \A j \in DOMAIN SPAM_KEYWORD_WEIGHTS :
                (/\ returned.rules.keywords[i].keyword = SPAM_KEYWORD_WEIGHTS[j].keyword
                 /\ HasEntry(returned.info.keywordMatch.matchedKeywords,
                             SPAM_KEYWORD_WEIGHTS[j].keyword)) =>
                    \E a, b \in DOMAIN returned.info.keywordMatch.matchedKeywords :
                        LET mk == returned.info.keywordMatch.matchedKeywords IN
                        /\ mk[a].key = SPAM_KEYWORD_WEIGHTS[j].keyword
                        /\ mk[b].key = "custom:" \o returned.rules.keywords[i].keyword
                        /\ mk[a].weight = SPAM_KEYWORD_WEIGHTS[j].weight
                        /\ mk[b].weight = returned.rules.keywords[i].weight
                        /\ mk[a].count = mk[b].count
                        /\ mk[b].contribution >= returned.rules.keywords[i].weight
                        /\ returned.info.keywordMatch.score
                               = ContributionSum(mk, Len(mk))
                        /\ returned.info.keywordMatch.score
                               >= mk[a].contribution + mk[b].contribution

\* "crypto" classified under a custom keyword "crypto" of weight 10 beside
\* the static keyword of weight 3
StaticAndCustomBothCounted ==
    /\ returned.fn = "getSpamInfo"
    /\ text = "crypto"
    /\ returned.rules.keywords = <<[keyword |-> "crypto", weight |-> 10]>>
    /\ returned.info.keywordMatch.score = 13
    /\ Len(returned.info.keywordMatch.matchedKeywords) = 2

\* the strings a HIGH result may list: the high-risk patterns and the custom
\* URL patterns of the rules the last result was computed under
HighOrCustomLabels ==
    {PatternToString(p) : p \in SeqToSet(HIGH_RISK_URL_PATTERNS)}
        \cup {"custom:" \o c : c \in SeqToSet(returned.rules.urls)}

\* C18: in every getSpamInfo result the URL tier is HIGH exactly when a
\* high-risk or custom URL pattern matches, and matchedPatterns then lists
\* only high-risk and custom patterns; otherwise it is MEDIUM for a
\* medium-risk match without a safe domain and LOW for one with a safe
\* domain; otherwise SAFE with no matched pattern; isSpam is true exactly
\* when the tier is not SAFE
UrlTierFollowsMatches ==
    returned.fn = "getSpamInfo" =>
        /\ returned.info.urlMatch.riskLevel = RISK_LEVELS.HIGH
               <=> MatchesHighOrCustomUrl
        /\ MatchesHighOrCustomUrl =>
               /\ Len(returned.info.urlMatch.matchedPatterns) > 0
               /\ SeqToSet(returned.info.urlMatch.matchedPatterns)
                      \subseteq HighOrCustomLabels
        /\ (~MatchesHighOrCustomUrl /\ MatchesMediumUrl) =>
               returned.info.urlMatch.riskLevel =
                   IF MentionsSafeDomain THEN RISK_LEVELS.LOW
                                         ELSE RISK_LEVELS.MEDIUM
        /\ (~MatchesHighOrCustomUrl /\ ~MatchesMediumUrl) =>
               /\ returned.info.urlMatch.riskLevel = RISK_LEVELS.SAFE
               /\ returned.info.urlMatch.matchedPatterns = <<>>
        /\ returned.info.urlMatch.isSpam
               <=> returned.info.urlMatch.riskLevel # RISK_LEVELS.SAFE

\* a text with a high-risk and a medium-risk URL has been classified: the
\* result is HIGH and lists the high-risk pattern alone
HighListedWithoutMedium ==
    /\ returned.fn = "getSpamInfo"
    /\ MatchesHighOrCustomUrl
    /\ MatchesMediumUrl
    /\ returned.info.urlMatch.matchedPatterns = <<PatternToString("wa\\.me\\/")>>

\* the keys calculateSpamScore records for the rules that occur in the
\* text of the last result: static keywords, regex rules, custom keywords
KeysOfMatchingRules ==
    IF Falsy(text) THEN {}
    ELSE {SPAM_KEYWORD_WEIGHTS[j].keyword : j \in
             {j \in DOMAIN SPAM_KEYWORD_WEIGHTS :
                 RegExpExec(KeywordRegExp(SPAM_KEYWORD_WEIGHTS[j].keyword),
                            toLowerCase(text), 0).found}}
         \cup {"regex:" \o SPAM_REGEX_PATTERNS[j].name : j \in
             {j \in DOMAIN SPAM_REGEX_PATTERNS :
                 RegExpExec(RegExp(SPAM_REGEX_PATTERNS[j].pattern), text, 0).found}}
         \cup {"custom:" \o returned.rules.keywords[j].keyword : j \in
             {j \in DOMAIN returned.rules.keywords :
                 RegExpExec(KeywordRegExp(returned.rules.keywords[j].keyword),
                            toLowerCase(text), 0).found}}

\* the weight the rule tables give the rule recorded under key
WeightOfKey(key) ==
    IF \E j \in DOMAIN SPAM_KEYWORD_WEIGHTS : SPAM_KEYWORD_WEIGHTS[j].keyword = key
    THEN (CHOOSE r \in SeqToSet(SPAM_KEYWORD_WEIGHTS) : r.keyword = key).weight
    ELSE IF \E j \in DOMAIN SPAM_REGEX_PATTERNS :
                "regex:" \o SPAM_REGEX_PATTERNS[j].name = key
    THEN (CHOOSE r \in SeqToSet(SPAM_REGEX_PATTERNS) :
                "regex:" \o r.name = key).weight
    ELSE (CHOOSE r \in SeqToSet(returned.rules.keywords) :
                "custom:" \o r.keyword = key).weight

\* C19: in every result of calculateSpamScore the score is the sum of the
\* contribution fields of matchedKeywords; every entry has a count of at
\* least 1, the weight of its rule and contribution = weight * count; a rule
\* that does not occur in the text has no entry; a regex rule is recorded
\* under regex:<name> (a multiplier such as "500x" under
\* "regex:multiplier claim" with weight 5)
ScoreIsSumOfContributions ==
    returned.fn = "getSpamInfo" =>
        LET mk == returned.info.keywordMatch.matchedKeywords IN
        /\ returned.info.keywordMatch.score = ContributionSum(mk, Len(mk))
        /\ \A i \in DOMAIN mk :
               /\ mk[i].count >= 1
               /\ mk[i].contribution = mk[i].weight * mk[i].count
               /\ mk[i].weight = WeightOfKey(mk[i].key)
        /\ {mk[i].key : i \in DOMAIN mk} = KeysOfMatchingRules
        /\ \A i, j \in DOMAIN mk : mk[i].key = mk[j].key => i = j

\* a text with two multipliers and one static keyword has been scored: the
\* regex entry counts 2 at weight 5, the keyword 1 at weight 3
MultiplierCountedTwice ==
    /\ returned.fn = "getSpamInfo"
    /\ text = "500x crypto 500x"
    /\ returned.info.keywordMatch.score = 13
    /\ \E i \in DOMAIN returned.info.keywordMatch.matchedKeywords :
           returned.info.keywordMatch.matchedKeywords[i] =
               [key |-> "regex:multiplier claim", weight |-> 5, count |-> 2,
                contribution |-> 10, matches |-> <<"500x", "500x">>]

\* C15: a classification that interleaves with a reload of the custom rules
\* uses the URL patterns and the keywords of one stored rule set, the old
\* one or the new one, and never the URL patterns of one with the keywords
\* of another; the heuristic part of its result is the one computed under
\* that rule set
ClassifiesUnderOneRuleSet ==
    /\ pending.active => pending.rules \in RuleSets
    /\ returned.fn # "none" => returned.rules \in RuleSets
    /\ returned.fn = "getSpamInfoWithAI" =>
           returned.heuristic =
               getSpamInfo(text, returned.rules.urls, returned.rules.keywords,
                           regexLastIndex).info

\* a getSpamInfoWithAI call was suspended at its await while the rules were
\* reloaded: it has returned the result computed under the old rule set
ReturnedUnderOldRules ==
    /\ returned.fn = "getSpamInfoWithAI"
    /\ "outcome" \in DOMAIN returned
    /\ returned.rules # CurrentRules
    /\ returned.rules.urls # customUrlPatterns
    /\ returned.rules.keywords # customKeywords

\* C14: after any sequence of options-page operations the custom URL
\* pattern list has no duplicate entry, the custom keyword map has no
\* duplicate key, and every keyword weight is an integer in [1, 10]
CustomListsWellFormed ==
    /\ \A i, j \in DOMAIN pageUrlPatterns :
           pageUrlPatterns[i] = pageUrlPatterns[j] => i = j
    /\ \A i, j \in DOMAIN pageKeywords :
           pageKeywords[i].keyword = pageKeywords[j].keyword => i = j
    /\ \A i \in DOMAIN pageKeywords :
           /\ pageKeywords[i].weight.type = "number"
           /\ pageKeywords[i].weight.n \in 1..10

\* C20: no result of getSpamInfo has both isHiddenLink true and the URL tier
\* HIGH, under the static tables and every custom URL pattern list the
\* options page can have stored: a text that is the "sent a link"
\* placeholder matches no high-risk and no accepted custom URL pattern
PlaceholderNeverHighUrl ==
    (classified.text # Null /\ ~classified.threw) =>
        ~(/\ classified.isHiddenLink = JsTrue
          /\ classified.urlTier = RISK_LEVELS.HIGH)

\* the placeholder has been classified under a full list of accepted custom
\* URL patterns: it is a hidden link and its URL tier is SAFE
PlaceholderUnderAcceptedPatterns ==
    /\ classified.text = " SENT A LINK "
    /\ ~classified.threw
    /\ classified.isHiddenLink = JsTrue
    /\ classified.urlTier = RISK_LEVELS.SAFE
    /\ pageUrlPatterns = <<"bit.ly", "http://t.co/x">>

\* the step events of a sweep in the order Report, Block, Delete
FixedOrder ==
    << Started("report"), Returned("report"), Started("block"), Returned("block"),
       Started("delete"), Returned("delete") >>

\* the starts and returns of steps in log, without the responses
StepEvents(log) == SelectSeq(log, LAMBDA e : e.event # "responded")

\* the number of responses sent in log
ResponseCount(log) == Cardinality({i \in DOMAIN log : log[i].event = "responded"})

ManualReportNeverAutoSelected ==
    ~(/\ reportDialog.open
      /\ reportDialog.by = "user"
      /\ reportDialog.spamSelectedBy = "contentScript")

\* C21: for every input text, the empty string and null included, the
\* isHiddenLink field of the result of getSpamInfo is a boolean
IsHiddenLinkIsBoolean ==
    returned.fn = "getSpamInfo" =>
        returned.info.isHiddenLink \in {JsTrue, JsFalse}

\* C24: if the URL tier of a result of getSpamInfo is high, its score is at
\* least 10 and its overall tier is medium or high, for every text and
\* every custom rule set
HighUrlAtLeastMedium ==
    (returned.fn = "getSpamInfo"
        /\ returned.info.urlMatch.riskLevel = RISK_LEVELS.HIGH) =>
            /\ returned.info.score >= 10
            /\ returned.info.riskLevel \in {RISK_LEVELS.MEDIUM, RISK_LEVELS.HIGH}

\* a high-risk URL beside a safe domain: the score is exactly 10 and the
\* tier medium, under custom rules
HighUrlAtTheFloor ==
    /\ returned.fn = "getSpamInfo"
    /\ returned.rules # NoRules
    /\ returned.info.urlMatch.riskLevel = RISK_LEVELS.HIGH
    /\ returned.info.urlMatch.hasSafeUrl
    /\ returned.info.score = 10
    /\ returned.info.riskLevel = RISK_LEVELS.MEDIUM

\* C23: when the report or the block of a sweep has returned and the row of
\* the user is no longer in the list, the handler ends there: no later step
\* is started, each later step is recorded as skipped with success true,
\* and the sweep responds success true
RowGoneSkipsTheRest ==
    [][\A step \in {"report", "block"} :
          (/\ ~rowVisible
           /\ Len(sweepResults') > Len(sweepResults)
           /\ sweepResults'[Len(sweepResults) + 1].action = step)
          => /\ sweepPc' = "done"
             /\ SubSeq(sweepResults', Len(sweepResults) + 2, Len(sweepResults')) =
                    (IF step = "report"
                     THEN <<[action |-> "block", success |-> TRUE],
                            [action |-> "delete", success |-> TRUE]>>
                     ELSE <<[action |-> "delete", success |-> TRUE]>>)
             /\ sweepLog'[Len(sweepLog')] = Responded(TRUE)
             /\ \A i \in DOMAIN sweepLog' :
                    sweepLog'[i].event = "started" =>
                        sweepLog'[i].step \in (IF step = "report"
                                               THEN {"report"}
                                               ELSE {"report", "block"})]_vars

\* a sweep whose row was gone after the block: the block was performed, the
\* delete never started and is recorded as skipped
DeleteSkippedAfterBlock ==
    /\ sweepPc = "done"
    /\ ~rowVisible
    /\ StepEvents(sweepLog) = SubSeq(FixedOrder, 1, 4)
    /\ Len(sweepResults) = 3
    /\ sweepResults[3] = [action |-> "delete", success |-> TRUE]
    /\ sweepLog[Len(sweepLog)] = Responded(TRUE)

\* C27: a sweepUser request is answered with success true only if every
\* step recorded in its details has success true
SuccessOnlyIfAllStepsSucceeded ==
    (sweepPc = "done" /\ sweepLog[Len(sweepLog)] = Responded(TRUE)) =>
        \A i \in DOMAIN sweepResults : sweepResults[i].success

\* C22: no call of getSpamInfo reads the custom URL patterns or the custom
\* keywords before the initCustomPatterns call made at load has completed
CustomRulesLoadedBeforeUse ==
    [][(returned' # returned /\ returned'.fn = "getSpamInfo") => customLoaded]_vars

\* C25: under every interleaving of resolveSentLinks requests, of
\* cancelLinkResolution requests and of the steps of
\* processLinkResolutionQueue, at most one call of
\* processLinkResolutionQueue is running and at most one worker window exists
OneLoopOneWindow ==
    /\ Cardinality({k \in 1..MaxLoops : loops[k].pc # "off"}) <= 1
    /\ Cardinality(windows) <= 1

\* C26: if no cancel is requested, the usernames accepted are shifted off
\* the queue in the order of their arrival, each once, and in the end all
\* of them have been, the queue is empty, isProcessingQueue is false and
\* the worker ids are cleared
QueueDrainsInOrder ==
    /\ [](/\ Len(attempted) <= Len(accepted)
          /\ attempted = SubSeq(accepted, 1, Len(attempted)))
    /\ <>[](/\ attempted = accepted
            /\ linkResolutionQueue = <<>>
            /\ ~isProcessingQueue
            /\ workerWindowId = NoWindow
            /\ workerTabId = NoWindow)

\* C28: after any sequence of toggleSelection, toggleSelectAll, toggleFilter
\* and fetchMessageRequests, whenever the list and its action bar are
\* shown, the selected usernames, on which performBatchAction acts, are
\* among the requests that pass the active filter
SelectedAreVisible ==
    shownState = "list" =>
        selectedUsernames \subseteq
            UsernamesOf(VisibleRequests(messageRequests, isFilterActive))

\* C29: when performBatchAction has run updateSelectionUI at its end, each
\* of the five buttons it disabled at its start is enabled exactly when the
\* selection is not empty
ButtonsFollowSelectionAfterBatch ==
    [][(batch.pc = "sending" /\ batch'.pc # "sending") =>
          \A b \in Buttons : buttonDisabled'[b] = (selectedUsernames' = {})]_vars

\* C30: under any interleaving of concurrent scanWithAI calls, the create
\* of the language model is called at most once as long as _aiSession has
\* not been set back to null
SessionCreatedAtMostOnce ==
    ~sessionDropped => createCalls <= 1

====
